---- MODULE Spec2Model ----
(***************************************************************************)
(* A model of the local agent-state engine of HatiData-SDKs:              *)
(*   sdk/python/hatidata_agent/local_engine.py  (LocalDuckDBEngine)       *)
(*   sdk/python/hatidata_agent/mcp_server.py    (handle_tool_call)        *)
(*                                                                         *)
(* Text values (VARCHAR/TEXT columns, Python str) are sequences of        *)
(* one-character strings, so that concatenation, substring search and     *)
(* tokenisation are computed as the code computes them.                    *)
(***************************************************************************)
EXTENDS Integers, Sequences, FiniteSets, TLC

\* ------------------------------------------------------------------ bounds

\* Most trace rows the chain-of-thought table holds in a checked run.
MaxTraces == 3

\* Most set_state calls made in a checked run.
MaxSets == 3

\* Most store_memory calls made in a checked run.
MaxMemories == 2

\* Most branch_create calls made in a checked run.
MaxBranches == 2

\* Most register_trigger calls made in a checked run.
MaxTriggers == 2

\* The last second the clock reaches in a checked run of the trigger tools.
MaxClock == 1

\* Most lines on the standard input of the stdio loop in a checked run.
MaxLines == 2

\* The HTTP requests one ControlPlaneClient sends.
MaxRequests == 3

\* The steps passed to one build_cot_session call.
MaxSteps == 2

\* An optional value (Python's None, SQL NULL): the empty tuple for None and
\* the one-element tuple <<v>> for a value v.
None == <<>>

Some(v) == <<v>>

\* ------------------------------------------------------------------ state

VARIABLES
    agent_traces,   \* rows of _hatidata_cot_local.agent_traces
    next_uuid,      \* number of uuid4() values drawn so far
    ret,            \* the last call made and what it returned
    log_calls,      \* history: per session, the trace ids in call order
    tampered,       \* history: the trace edited directly in storage, or None
    threads,        \* per caller thread: position inside the call it is making
    agent_state,    \* rows of _hatidata_memory_local.agent_state
    set_calls,      \* history: per (agent_id, key), the set_state calls made
    last_set,       \* history: per (agent_id, key), the value last passed to set_state
    agent_memories, \* rows of _hatidata_memory_local.agent_memories
    now,            \* the clock behind the created_at default, in seconds
    main,           \* schema main: the rows of each of its base tables
    branches,       \* the branch_<id> schemas: per id, the objects of the schema
    gone,           \* history: the ids of the branches merged or discarded
    search_path,    \* the connection's search_path setting: schemas in order
    is_local,       \* whether the dispatcher runs on the local engine
    trigger_schema, \* whether _hatidata_triggers_local.trigger_registry exists
    trigger_registry, \* rows of _hatidata_triggers_local.trigger_registry
    stdin,          \* the lines of sys.stdin the stdio loop has not read yet
    stdout,         \* the responses written to sys.stdout, in order
    loop,           \* the stdio loop: reading, raised (an exception left it) or ended
    read_lines,     \* history: the lines the stdio loop has read, in order
    catalog,        \* the internal schemas and tables that exist in the database file
    initialized_schemas, \* the engine's _initialized_schemas set
    cp,             \* the ControlPlaneClient constructed, or None
    http            \* history: the HTTP requests the client has sent, in order

cotVars == <<agent_traces, log_calls, tampered, threads>>

stateVars == <<agent_state, set_calls, last_set>>

memVars == <<agent_memories, now>>

branchVars == <<main, branches, gone, search_path>>

triggerVars == <<trigger_schema, trigger_registry>>

stdioVars == <<stdin, stdout, loop, read_lines>>

bootVars == <<catalog, initialized_schemas>>

cpVars == <<cp, http>>

vars ==
    <<next_uuid, ret, is_local, cotVars, stateVars, memVars, branchVars, triggerVars,
      stdioVars, bootVars, cpVars>>

\* What the operations of one component leave alone.
notCot == <<is_local, stateVars, memVars, branchVars, triggerVars, stdioVars, cpVars>>

notState == <<is_local, cotVars, memVars, branchVars, triggerVars, stdioVars, cpVars>>

notMem == <<is_local, cotVars, stateVars, branchVars, triggerVars, stdioVars, cpVars>>

notBranch ==
    <<is_local, cotVars, stateVars, memVars, triggerVars, stdioVars, bootVars, cpVars>>

notTrigger == <<is_local, cotVars, stateVars, agent_memories, branchVars, stdioVars, cpVars>>

notServe == <<next_uuid, is_local, cotVars, stateVars, memVars, branchVars, cpVars>>

\* What the control plane client, which holds no engine, leaves alone.
notControlPlane ==
    <<is_local, cotVars, stateVars, agent_memories, branchVars, triggerVars, stdioVars,
      bootVars>>

notStdio == <<notServe, bootVars>>

Threads == {"t1", "t2"}

\* ------------------------------------------------------------------ schema bootstrap

\* local_engine.py:38-40
MEMORY_SCHEMA == "_hatidata_memory_local"

COT_SCHEMA == "_hatidata_cot_local"

TRIGGER_SCHEMA == "_hatidata_triggers_local"

InternalSchemas == {MEMORY_SCHEMA, COT_SCHEMA, TRIGGER_SCHEMA}

\* local_engine.py:63-91, 99-120, 128-147  the tables each bootstrap creates,
\* in the order of its CREATE TABLE statements.
TablesOf(schema) ==
    CASE schema = MEMORY_SCHEMA -> <<"agent_memories", "agent_state">>
      [] schema = COT_SCHEMA -> <<"agent_traces">>
      [] schema = TRIGGER_SCHEMA -> <<"trigger_registry">>

\* What a completed bootstrap leaves in the catalog: the schema and its tables.
SchemaObjects(schema) ==
    {<<schema>>} \cup {<<schema, TablesOf(schema)[k]>> : k \in 1..Len(TablesOf(schema))}

\* A mutant of CreateTableIfNotExists: CREATE OR REPLACE TABLE.
CreateOrReplaceTable(rows, exists) == {}

\* local_engine.py:63, 81, 99, 128  CREATE TABLE IF NOT EXISTS: the rows of
\* the table afterwards.
CreateTableIfNotExists(rows, exists) == IF exists THEN rows ELSE {}

\* local_engine.py:57-148  an ensure_*_schema call run start to end by one
\* caller: nothing when the guard finds the schema in _initialized_schemas,
\* else the schema and its tables are created where missing (an existing
\* table keeps its rows) and the schema is added to the set.
Ensure(schema) ==
    /\ catalog' = IF schema \in initialized_schemas THEN catalog
                  ELSE catalog \cup SchemaObjects(schema)
    /\ initialized_schemas' = initialized_schemas \cup {schema}

\* The rows of the table `name`.
TableRows(name) ==
    CASE name = "agent_memories" -> agent_memories
      [] name = "agent_state" -> agent_state
      [] name = "agent_traces" -> agent_traces
      [] name = "trigger_registry" -> trigger_registry

\* What the steps of a bootstrap leave alone, the tables aside.
notBoot ==
    <<next_uuid, is_local, log_calls, tampered, set_calls, last_set, now, branchVars,
      stdioVars, cpVars>>

notTables == <<agent_memories, agent_state, agent_traces, trigger_registry, trigger_schema>>

\* local_engine.py:59-60, 95-96, 124-125  a thread calls ensure_*_schema: the
\* guard returns at once when the schema is in _initialized_schemas.
EnsureCall(t, schema) ==
    /\ threads[t].pc = "idle"
    /\ IF schema \in initialized_schemas
       THEN /\ ret' = [op |-> "ensure_schema", schema |-> schema, thread |-> t,
                       created |-> FALSE]
            /\ UNCHANGED threads
       ELSE /\ threads' = [threads EXCEPT ![t] = [pc |-> "create_schema",
                                                   schema |-> schema]]
            /\ UNCHANGED ret
    /\ UNCHANGED <<bootVars, notTables, notBoot>>

\* local_engine.py:62, 98, 127  CREATE SCHEMA IF NOT EXISTS.
EnsureCreateSchema(t) ==
    /\ threads[t].pc = "create_schema"
    /\ catalog' = catalog \cup {<<threads[t].schema>>}
    /\ threads' = [threads EXCEPT ![t] = [pc |-> "create_table", schema |-> @.schema,
                                          table |-> 1]]
    /\ UNCHANGED <<ret, initialized_schemas, notTables, notBoot>>

\* local_engine.py:63-91, 99-120, 128-147  the next CREATE TABLE IF NOT
\* EXISTS of the bootstrap.
EnsureCreateTable(t) ==
    /\ threads[t].pc = "create_table"
    /\ LET schema == threads[t].schema
           name   == TablesOf(schema)[threads[t].table]
           exists == <<schema, name>> \in catalog
           After(n) == IF n = name THEN CreateTableIfNotExists(TableRows(n), exists)
                       ELSE TableRows(n)
       IN  /\ agent_memories' = After("agent_memories")
           /\ agent_state' = After("agent_state")
           /\ agent_traces' = After("agent_traces")
           /\ trigger_registry' = After("trigger_registry")
           /\ trigger_schema' = (trigger_schema \/ name = "trigger_registry")
           /\ catalog' = catalog \cup {<<schema, name>>}
           /\ threads' = [threads EXCEPT ![t] =
                             IF threads[t].table < Len(TablesOf(schema))
                             THEN [@ EXCEPT !.table = @ + 1]
                             ELSE [pc |-> "add", schema |-> schema]]
    /\ UNCHANGED <<ret, initialized_schemas, notBoot>>

\* local_engine.py:92, 121, 148  self._initialized_schemas.add(...), and the
\* call returns.
EnsureAdd(t) ==
    /\ threads[t].pc = "add"
    /\ initialized_schemas' = initialized_schemas \cup {threads[t].schema}
    /\ threads' = [threads EXCEPT ![t] = [pc |-> "idle"]]
    /\ ret' = [op |-> "ensure_schema", schema |-> threads[t].schema, thread |-> t,
               created |-> TRUE]
    /\ UNCHANGED <<catalog, notTables, notBoot>>

\* local_engine.py:43-53  the process ends and a new one constructs an engine
\* on the same file: the file keeps what is in it and _initialized_schemas
\* starts empty.
NewProcess ==
    /\ \A t \in Threads : threads[t].pc = "idle"
    /\ initialized_schemas # {}
    /\ initialized_schemas' = {}
    /\ ret' = [op |-> "open"]
    /\ UNCHANGED <<catalog, threads, notTables, notBoot>>

\* ------------------------------------------------------------------ hashing

\* hashlib.sha256(s.encode()).hexdigest(): a text value determined by s, and
\* (no collision being known) by nothing less than all of s.  The digest is
\* modelled by s between two marks no input character uses, which keeps it
\* a text value that enters the next chain input by concatenation.
SHA256(s) == <<"[">> \o s \o <<"]">>

\* local_engine.py:318  chain_input = f"{prev_hash}{session_id}{step_type}{content}"
ChainInput(prev_hash, session_id, step_type, content) ==
    prev_hash \o session_id \o step_type \o content

\* ------------------------------------------------------------------ JSON

\* Python values that are JSON values, each a record whose one field names
\* its type: None, a bool, a non-negative int, a str, a list (a sequence of
\* values) and a dict with str keys (a sequence of <<key, value>> pairs in
\* insertion order).
PyNone == [null |-> <<>>]

PyBool(b) == [bool |-> b]

PyInt(n) == [int |-> n]

PyStr(chars) == [str |-> chars]

PyList(items) == [list |-> items]

PyDict(pairs) == [dict |-> pairs]

IsA(value, type) == DOMAIN value = {type}

DigitChars == <<"0", "1", "2", "3", "4", "5", "6", "7", "8", "9">>

IsDigit(c) == \E d \in 1..10 : DigitChars[d] = c

DigitValue(c) == (CHOOSE d \in 1..10 : DigitChars[d] = c) - 1

RECURSIVE IntText(_)
\* The decimal text of a non-negative int.
IntText(n) ==
    IF n < 10 THEN <<DigitChars[n + 1]>>
    ELSE IntText(n \div 10) \o <<DigitChars[(n % 10) + 1]>>

RECURSIVE EscapeText(_)
\* The body of a JSON string: a backslash before each quote and backslash.
EscapeText(chars) ==
    IF chars = <<>> THEN <<>>
    ELSE (IF Head(chars) \in {"\"", "\\"} THEN <<"\\", Head(chars)>> ELSE <<Head(chars)>>)
            \o EscapeText(Tail(chars))

QuotedText(chars) == <<"\"">> \o EscapeText(chars) \o <<"\"">>

RECURSIVE JoinTexts(_)
\* The texts of a sequence joined by ", ".
JoinTexts(texts) ==
    IF texts = <<>> THEN <<>>
    ELSE IF Len(texts) = 1 THEN texts[1]
    ELSE texts[1] \o <<",", " ">> \o JoinTexts(Tail(texts))

RECURSIVE JsonDumpsUnquoted(_)
\* A mutant of JsonDumps: a str is written as it is, without quotes or
\* escapes (str(value) in place of json.dumps(value)).
JsonDumpsUnquoted(value) ==
    CASE IsA(value, "null") -> <<"n", "u", "l", "l">>
      [] IsA(value, "bool") -> IF value.bool THEN <<"t", "r", "u", "e">>
                                         ELSE <<"f", "a", "l", "s", "e">>
      [] IsA(value, "int") -> IntText(value.int)
      [] IsA(value, "str") -> value.str
      [] IsA(value, "list") ->
            <<"[">> \o JoinTexts([i \in 1..Len(value.list) |-> JsonDumpsUnquoted(value.list[i])])
                    \o <<"]">>
      [] IsA(value, "dict") ->
            <<"{">> \o JoinTexts([i \in 1..Len(value.dict) |->
                                    QuotedText(value.dict[i][1]) \o <<":", " ">>
                                        \o JsonDumpsUnquoted(value.dict[i][2])])
                    \o <<"}">>

RECURSIVE JsonDumps(_)
\* json.dumps(value) with Python's default separators (local_engine.py:265).
JsonDumps(value) ==
    CASE IsA(value, "null") -> <<"n", "u", "l", "l">>
      [] IsA(value, "bool") -> IF value.bool THEN <<"t", "r", "u", "e">>
                                         ELSE <<"f", "a", "l", "s", "e">>
      [] IsA(value, "int") -> IntText(value.int)
      [] IsA(value, "str") -> QuotedText(value.str)
      [] IsA(value, "list") ->
            <<"[">> \o JoinTexts([i \in 1..Len(value.list) |-> JsonDumps(value.list[i])])
                    \o <<"]">>
      [] IsA(value, "dict") ->
            <<"{">> \o JoinTexts([i \in 1..Len(value.dict) |->
                                    QuotedText(value.dict[i][1]) \o <<":", " ">>
                                        \o JsonDumps(value.dict[i][2])])
                    \o <<"}">>

\* A parse that failed (json.JSONDecodeError).
ParseFail == [ok |-> FALSE]

ParseOk(value, next) == [ok |-> TRUE, v |-> value, next |-> next]

StartsWith(text, i, word) ==
    /\ i + Len(word) - 1 <= Len(text)
    /\ SubSeq(text, i, i + Len(word) - 1) = word

RECURSIVE SkipSpaces(_, _)
SkipSpaces(text, i) ==
    IF i <= Len(text) /\ text[i] = " " THEN SkipSpaces(text, i + 1) ELSE i

RECURSIVE ParseDigits(_, _, _)
ParseDigits(text, i, acc) ==
    IF i <= Len(text) /\ IsDigit(text[i])
    THEN ParseDigits(text, i + 1, acc * 10 + DigitValue(text[i]))
    ELSE ParseOk(PyInt(acc), i)

RECURSIVE ParseChars(_, _, _)
\* The characters of a JSON string from position i, after its opening quote.
ParseChars(text, i, acc) ==
    IF i > Len(text) THEN ParseFail
    ELSE IF text[i] = "\"" THEN ParseOk(acc, i + 1)
    ELSE IF text[i] = "\\"
         THEN IF i + 1 <= Len(text) /\ text[i + 1] \in {"\"", "\\"}
              THEN ParseChars(text, i + 2, Append(acc, text[i + 1]))
              ELSE ParseFail
    ELSE ParseChars(text, i + 1, Append(acc, text[i]))

\* A dict with `key` set to `value`: a key already there keeps its place.
PutKey(pairs, key, value) ==
    IF \E i \in 1..Len(pairs) : pairs[i][1] = key
    THEN [i \in 1..Len(pairs) |-> IF pairs[i][1] = key THEN <<key, value>> ELSE pairs[i]]
    ELSE Append(pairs, <<key, value>>)

RECURSIVE ParseValue(_, _)
RECURSIVE ParseItems(_, _, _)
RECURSIVE ParseMembers(_, _, _)

\* The items of a JSON array from position i, after "[" or ",".
ParseItems(text, i, acc) ==
    LET r == ParseValue(text, i)
    IN  IF ~r.ok THEN ParseFail
        ELSE LET j == SkipSpaces(text, r.next)
             IN  IF j > Len(text) THEN ParseFail
                 ELSE IF text[j] = "," THEN ParseItems(text, j + 1, Append(acc, r.v))
                 ELSE IF text[j] = "]" THEN ParseOk(PyList(Append(acc, r.v)), j + 1)
                 ELSE ParseFail

\* The members of a JSON object from position i, after "{" or ",".
ParseMembers(text, i, acc) ==
    LET k == SkipSpaces(text, i)
    IN  IF k > Len(text) \/ text[k] # "\"" THEN ParseFail
        ELSE LET key == ParseChars(text, k + 1, <<>>)
             IN  IF ~key.ok THEN ParseFail
                 ELSE LET c == SkipSpaces(text, key.next)
                      IN  IF c > Len(text) \/ text[c] # ":" THEN ParseFail
                          ELSE LET r == ParseValue(text, c + 1)
                               IN  IF ~r.ok THEN ParseFail
                                   ELSE LET j == SkipSpaces(text, r.next)
                                        IN  IF j > Len(text) THEN ParseFail
                                            ELSE IF text[j] = ","
                                                 THEN ParseMembers(text, j + 1,
                                                                   PutKey(acc, key.v, r.v))
                                            ELSE IF text[j] = "}"
                                                 THEN ParseOk(PyDict(PutKey(acc, key.v, r.v)),
                                                              j + 1)
                                            ELSE ParseFail

\* One JSON value from position i on; leading spaces are skipped.
ParseValue(text, i0) ==
    LET i == SkipSpaces(text, i0)
    IN  IF i > Len(text) THEN ParseFail
        ELSE IF StartsWith(text, i, <<"n", "u", "l", "l">>) THEN ParseOk(PyNone, i + 4)
        ELSE IF StartsWith(text, i, <<"t", "r", "u", "e">>) THEN ParseOk(PyBool(TRUE), i + 4)
        ELSE IF StartsWith(text, i, <<"f", "a", "l", "s", "e">>)
             THEN ParseOk(PyBool(FALSE), i + 5)
        ELSE IF text[i] = "0" THEN ParseOk(PyInt(0), i + 1)
        ELSE IF IsDigit(text[i]) THEN ParseDigits(text, i, 0)
        ELSE IF text[i] = "\""
             THEN LET r == ParseChars(text, i + 1, <<>>)
                  IN  IF r.ok THEN ParseOk(PyStr(r.v), r.next) ELSE ParseFail
        ELSE IF text[i] = "["
             THEN LET j == SkipSpaces(text, i + 1)
                  IN  IF j <= Len(text) /\ text[j] = "]" THEN ParseOk(PyList(<<>>), j + 1)
                      ELSE ParseItems(text, j, <<>>)
        ELSE IF text[i] = "{"
             THEN LET j == SkipSpaces(text, i + 1)
                  IN  IF j <= Len(text) /\ text[j] = "}" THEN ParseOk(PyDict(<<>>), j + 1)
                      ELSE ParseMembers(text, j, <<>>)
        ELSE ParseFail

\* json.loads(text): one value and nothing but spaces after it, else a
\* JSONDecodeError (local_engine.py:256).
JsonLoads(text) ==
    LET r == ParseValue(text, 1)
    IN  IF r.ok /\ SkipSpaces(text, r.next) = Len(text) + 1 THEN r ELSE ParseFail

\* ------------------------------------------------------------------ inputs

AgentIds == {<<"a", "1">>, <<"a", "2">>}

\* Two session ids one of which is a prefix of the other; with the step types
\* x and ox below, session_id ++ step_type is ambiguous (s ++ ox = so ++ x),
\* as it is for the code's raw concatenation.
SessionIds == {<<"s">>, <<"s", "o">>}

TraceContents == {<<"h", "i">>, <<"x">>}

StateKeys == {<<"k">>, <<"j">>}

\* The values set_state is called with: scalars, strings whose text looks
\* like another JSON value or holds a quote, a list and a nested dict.
StateValues ==
    {PyNone,
     PyBool(TRUE),
     PyInt(10),
     PyStr(<<"1", "0">>),
     PyStr(<<"n", "u", "l", "l">>),
     PyStr(<<"a", "\"">>),
     PyList(<<PyInt(1), PyStr(<<",">>)>>),
     PyDict(<<<<(<<"x">>), PyList(<<PyNone>>)>>>>)}

\* The store_memory calls made: agent_id, content, memory_type, importance
\* (in tenths).  Contents differ in case and hold spaces.
StoreInputs ==
    {<<(<<"a", "1">>), (<<"a", "a", "b">>), "fact", 5>>,
     <<(<<"a", "1">>), (<<"A", "a", "b", " ", "b">>), "fact", 8>>,
     <<(<<"a", "1">>), (<<"b", " ", "a">>), "note", 5>>,
     <<(<<"a", "2">>), (<<"a", "a", "b">>), "fact", 5>>}

\* The search_memory calls made: agent_id, query_text, top_k, memory_type,
\* min_importance (the last two optional).
SearchInputs ==
    {<<(<<"a", "1">>), (<<"a", "a", "b">>), 10, None, None>>,
     <<(<<"a", "1">>), (<<"a", "a", "b", "b">>), 10, None, None>>,
     <<(<<"a", "1">>), (<<"b", " ", "a">>), 10, None, None>>,
     <<(<<"a", "1">>), (<<>>), 1, None, None>>,
     <<(<<"a", "1">>), (<<"a", "b", " ", "b">>), 10, None, None>>,
     <<(<<"a", "1">>), (<<"a", "b">>), 10, Some("fact"), Some(8)>>,
     <<(<<"a", "1">>), (<<"a", "a", "b">>), 1, None, None>>,
     <<(<<"a", "1">>), (<<" ", "a", "b", " ", " ", "a", "a", "b">>), 10, Some("note"), None>>,
     <<(<<"a", "1">>), (<<"a", "b", " ", "b", "b", "b">>), 10, None, Some(8)>>,
     <<(<<"a", "2">>), (<<"a", "a", "b">>), 10, None, None>>}

\* search_memory calls beyond those of SearchInputs: a token with the
\* pattern character _, a token with a quote in it, and a token that closes
\* the quote and the parenthesis search_memory opens and adds a condition
\* that holds for every row.
WideSearchInputs ==
    SearchInputs \cup
    {<<(<<"a", "1">>), (<<"a", "_", "b">>), 10, None, None>>,
     <<(<<"a", "1">>), (<<"a", "'", "b">>), 10, None, None>>,
     <<(<<"a", "1">>),
       (<<"x", "%", "'", ")", "OR", "(", "'", "1", "'", "LIKE", "'", "1">>), 10, None, None>>}

\* store_memory calls beyond those of StoreInputs: an empty agent_id, and an
\* importance above 1 and one below 0 (in tenths).
WideStoreInputs ==
    StoreInputs \cup
    {<<(<<>>), (<<"a", "a", "b">>), "fact", 5>>,
     <<(<<"a", "1">>), (<<"a", "a", "b">>), "fact", 15>>,
     <<(<<"a", "1">>), (<<"a", "a", "b">>), "fact", -1>>}

\* The argument maps the store_memory tool is called with; the last lacks
\* the required content.
StoreMemoryArguments ==
    {[content |-> <<"a", "a", "b">>],
     [content |-> <<"a", "a", "b">>, memory_type |-> "note", importance |-> 8],
     [content |-> <<"a", "a", "b">>, importance |-> 70],
     [importance |-> 5]}

TableNames == {"t", "u"}

\* The catalogs of schema main an engine is opened on: a new file, and a file
\* that holds a user table already.
InitialMains ==
    <<[n \in {} |-> {}],
      [n \in {"t"} |-> {1}]>>

BranchStrategies == {"branch_wins", "main_wins"}

\* The statements run through branch_query:
\*   select       SELECT * FROM <t>
\*   materialize  DROP VIEW <t>; CREATE TABLE <t> AS SELECT * FROM main.<t>
\*   insert       INSERT INTO <t> VALUES (3)
\*   update       UPDATE <t> SET v = 3 WHERE v = 1
\*   delete       DELETE FROM <t> WHERE v = 1
\*   create       CREATE TABLE <t> AS SELECT 3
WriteKinds == {"insert", "update", "delete"}

BranchStatements ==
    [kind : {"select"}, table : TableNames]
      \cup [kind : {"materialize"} \cup WriteKinds, table : {"t"}]
      \cup [kind : {"create", "insert"}, table : {"u"}]

\* The argument maps register_trigger is called with; threshold is in
\* tenths.  The last one lacks the required name.
RegisterArguments ==
    {[name |-> "n1", concept |-> <<"A", "a", "b", " ", "a", "b", " ", "b", "b", "b">>],
     [name |-> "n2", concept |-> <<"a", "b">>, threshold |-> 5],
     [concept |-> <<"a", "b">>]}

\* register_trigger calls beyond those of RegisterArguments: a concept that
\* repeats a token, with threshold 0.6.
WideRegisterArguments ==
    RegisterArguments \cup
    {[name |-> "n3", concept |-> <<"a", "a", "b", " ", "a", "a", "b", " ", "b", "b", "b">>,
      threshold |-> 6]}

\* The contents test_trigger is called with.
TestContents ==
    {<<"x", "A", "A", "B">>, <<"b", "b", "b", " ", "A", "a", "b">>}

\* The argument maps test_trigger is called with; the last ones lack the
\* required content.
TestArguments ==
    [trigger_id : 0..(MaxTriggers - 1), content : TestContents]
      \cup [trigger_id : 0..(MaxTriggers - 1)]

\* The argument maps list_triggers is called with.
ListArguments == [status : {"active", "inactive", "all"}] \cup {[a \in {} |-> ""]}

\* The argument maps delete_trigger is called with; the last one lacks the
\* required trigger_id.
DeleteArguments == [trigger_id : 0..(MaxTriggers - 1)] \cup {[a \in {} |-> 0]}

\* The argument maps the branch tools are called with through the dispatcher,
\* some of them lacking a required argument.
BranchQueryArguments ==
    {[branch_id |-> 0, sql |-> [kind |-> "select", table |-> "t"]],
     [branch_id |-> 0],
     [sql |-> [kind |-> "select", table |-> "t"]]}

BranchMergeArguments ==
    {[branch_id |-> 0], [branch_id |-> 0, strategy |-> "main_wins"], [a \in {} |-> 0]}

BranchDiscardArguments == {[branch_id |-> 0], [a \in {} |-> 0]}

\* SQL texts as lists of lexical tokens.  The sql arguments read_query is
\* called with: a select, the select with a trailing semicolon and blank, a
\* DROP TABLE, a DROP TABLE before a select, and a text that closes the
\* parenthesis read_query opens, runs a DROP TABLE, and opens a parenthesis
\* for the one read_query closes.
ReadQuerySqls ==
    {<<"SELECT 1">>,
     <<" ", "SELECT 1", ";", " ">>,
     <<"DROP TABLE t">>,
     <<"DROP TABLE t", ";", "SELECT 1">>,
     <<"SELECT 1", ")", "AS a", ";", "DROP TABLE t", ";",
       "SELECT * FROM", "(", "SELECT 1">>}

\* The argument maps read_query is called with; the last lacks sql.
ReadQueryArguments == [sql : ReadQuerySqls] \cup {[a \in {} |-> 0]}

\* Tool names that are not in the catalog.
UnknownTools == {"drop_everything"}

\* A str of one piece: a run of letters the JSON code reads as it reads one
\* letter, since it holds no quote, backslash, blank or digit.
Word(w) == PyStr(<<w>>)

\* A JSON-RPC request object with an id and a method, and one with params too.
RequestObject(id, method) ==
    PyDict(<< <<<<"id">>, PyInt(id)>>, <<<<"method">>, Word(method)>> >>)

RequestWithParams(id, method, params) ==
    PyDict(<< <<<<"id">>, PyInt(id)>>, <<<<"method">>, Word(method)>>,
              <<<<"params">>, params>> >>)

ToolParams(name) == PyDict(<< <<<<"name">>, Word(name)>> >>)

ToolParamsWithArguments(name, arguments) ==
    PyDict(<< <<<<"name">>, Word(name)>>, <<<<"arguments">>, arguments>> >>)

\* The lines a client writes to the server's standard input, without their
\* newline: requests as json.dumps writes them (one of them with blanks
\* around it), a notification, a blank line, a line cut short, and JSON
\* values that are not objects.
StdinLines ==
    {JsonDumps(RequestObject(1, "initialize")),
     JsonDumps(RequestObject(2, "tools/list")),
     <<" ">> \o JsonDumps(RequestWithParams(3, "tools/call",
                  ToolParamsWithArguments("list_triggers",
                      PyDict(<< <<<<"status">>, Word("active")>> >>)))) \o <<" ">>,
     JsonDumps(RequestWithParams(4, "tools/call", ToolParams("list_triggers"))),
     JsonDumps(RequestWithParams(5, "tools/call",
                  ToolParamsWithArguments("list_triggers", PyNone))),
     JsonDumps(RequestWithParams(6, "tools/call", ToolParams("drop_everything"))),
     JsonDumps(RequestObject(7, "tools/call")),
     JsonDumps(RequestWithParams(8, "tools/call", PyNone)),
     JsonDumps(PyDict(<< <<<<"method">>, Word("notifications/initialized")>> >>)),
     JsonDumps(RequestObject(9, "resources/list")),
     JsonDumps(PyDict(<< <<<<"id">>, PyInt(10)>> >>)),
     <<" ">>,
     <<"{", "\"", "id", "\"", ":">>,
     JsonDumps(PyList(<<PyInt(1)>>)),
     JsonDumps(PyNone)}

\* The (step_type, content) pairs log_reasoning_step is called with.
StepInputs == {<<<<"x">>, <<"h", "i">>>>, <<<<"o", "x">>, <<"x">>>>}

\* ------------------------------------------------------------------ CoT ledger

SessionRows(rows, session_id) == {r \in rows : r.session_id = session_id}

\* A mutant of PredecessorQuery: the WHERE session_id filter is lost.
PredecessorQueryNoFilter(rows, session_id) ==
    IF rows = {} THEN {<<>>}
    ELSE {<<r>> : r \in {x \in rows : \A y \in rows : y.step_number <= x.step_number}}

\* local_engine.py:309-313  SELECT hash, step_number ... WHERE session_id = $1
\* ORDER BY step_number DESC LIMIT 1.  The set of results the query can give:
\* the empty list, or one row of largest step_number (any of them on a tie).
PredecessorQuery(rows, session_id) ==
    LET mine == SessionRows(rows, session_id)
    IN  IF mine = {} THEN {<<>>}
        ELSE {<<r>> : r \in {x \in mine : \A y \in mine : y.step_number <= x.step_number}}

\* local_engine.py:314-329  the row log_reasoning_step inserts, given the
\* result `rows` of the predecessor query.
NewTrace(trace_id, agent_id, session_id, step_type, content, rows) ==
    LET prev_hash == IF rows # <<>> THEN rows[1].hash ELSE <<>>
        step_number == IF rows # <<>> THEN rows[1].step_number + 1 ELSE 0
    IN  [trace_id |-> trace_id,
         session_id |-> session_id,
         agent_id |-> agent_id,
         step_number |-> step_number,
         step_type |-> step_type,
         content |-> content,
         prev_hash |-> prev_hash,
         hash |-> SHA256(ChainInput(prev_hash, session_id, step_type, content))]

\* local_engine.py:294-330  log_reasoning_step, run start to end by one caller.
LogReasoningStep(agent_id, session_id, step_type, content) ==
    /\ Cardinality(agent_traces) < MaxTraces
    /\ \E rows \in PredecessorQuery(agent_traces, session_id) :
         agent_traces' = agent_traces \cup
             {NewTrace(next_uuid, agent_id, session_id, step_type, content, rows)}
    /\ log_calls' = [log_calls EXCEPT ![session_id] = Append(@, next_uuid)]
    /\ next_uuid' = next_uuid + 1
    /\ ret' = [op |-> "log_reasoning_step", trace_id |-> next_uuid]
    /\ Ensure(COT_SCHEMA)
    /\ UNCHANGED <<tampered, threads, notCot>>

\* The results ORDER BY step_number ASC can give for a set of rows: every
\* listing of the rows, each once, with step numbers never decreasing.
OrderByStepNumber(rows) ==
    {q \in [1..Cardinality(rows) -> rows] :
        /\ \A i, j \in 1..Cardinality(rows) : i < j => q[i] # q[j]
        /\ \A i, j \in 1..Cardinality(rows) : i < j => q[i].step_number <= q[j].step_number}

\* A mutant of ReplayChainInput: step_type and content change places.
ReplayChainInputSwapped(row) ==
    row.prev_hash \o row.session_id \o row.content \o row.step_type

\* local_engine.py:354-357  the chain input replay_session rebuilds from a row.
ReplayChainInput(row) ==
    row.prev_hash \o row.session_id \o row.step_type \o row.content

\* A mutant of StepValid: only the hash of each row is recomputed.
StepValidHashOnly(rows, i) ==
    rows[i].hash = SHA256(ReplayChainInput(rows[i]))

\* A mutant of StepValid: only the prev_hash links are compared.
StepValidLinksOnly(rows, i) ==
    rows[i].prev_hash = (IF i > 1 THEN rows[i - 1].hash ELSE <<>>)

\* local_engine.py:350-361  the two checks of the verification loop on row i.
StepValid(rows, i) ==
    /\ rows[i].prev_hash = (IF i > 1 THEN rows[i - 1].hash ELSE <<>>)
    /\ rows[i].hash = SHA256(ReplayChainInput(rows[i]))

\* local_engine.py:346-361  chain_valid: None unless verification was asked
\* for and there are rows; then false at the first failing row, else true.
ChainValid(rows, verify_chain) ==
    IF verify_chain /\ rows # <<>>
    THEN Some(\A i \in 1..Len(rows) : StepValid(rows, i))
    ELSE None

\* local_engine.py:332-368  replay_session.
ReplaySession(session_id, verify_chain) ==
    /\ \E rows \in OrderByStepNumber(SessionRows(agent_traces, session_id)) :
         ret' = [op |-> "replay_session",
                 verify_chain |-> verify_chain,
                 session_id |-> session_id,
                 steps |-> rows,
                 step_count |-> Len(rows),
                 chain_valid |-> ChainValid(rows, verify_chain)]
    /\ Ensure(COT_SCHEMA)
    /\ UNCHANGED <<agent_traces, next_uuid, log_calls, tampered, threads, notCot>>

\* An edit made directly in storage, outside the engine: UPDATE agent_traces
\* SET content = <another value> WHERE trace_id = <id>.  One such edit is
\* made in a run.
TamperContent(trace_id, content) ==
    /\ tampered = None
    /\ \E r \in agent_traces :
         /\ r.trace_id = trace_id
         /\ r.content # content
         /\ agent_traces' = (agent_traces \ {r}) \cup {[r EXCEPT !.content = content]}
         /\ tampered' = Some([trace_id |-> trace_id, session_id |-> r.session_id])
    /\ ret' = [op |-> "none"]
    /\ UNCHANGED <<next_uuid, log_calls, threads, notCot, bootVars>>

\* The columns of agent_traces an edit in storage is made to, and the values
\* it writes: a step type, an agent id, the empty text or the hash of a row
\* of the table, and for the hash also a digest of nothing.
EditedColumns == {"step_type", "prev_hash", "hash", "agent_id"}

EditValues(column, rows) ==
    CASE column = "step_type" -> {<<"x">>, <<"o", "x">>}
      [] column = "agent_id" -> AgentIds
      [] column = "prev_hash" -> {<<>>} \cup {r.hash : r \in rows}
      [] column = "hash" -> {SHA256(<<>>)} \cup {r.hash : r \in rows}

\* Whether the session of row r holds a row of larger step_number.
HasSuccessor(rows, r) ==
    \E x \in SessionRows(rows, r.session_id) : x.step_number > r.step_number

\* An edit made directly in storage: UPDATE agent_traces SET <column> =
\* <another value> WHERE trace_id = <id>.  One edit is made in a run.
TamperColumn(trace_id, column, value) ==
    /\ tampered = None
    /\ \E r \in agent_traces :
         /\ r.trace_id = trace_id
         /\ r[column] # value
         /\ agent_traces' = (agent_traces \ {r}) \cup {[r EXCEPT ![column] = value]}
         /\ tampered' = Some([trace_id |-> trace_id, session_id |-> r.session_id,
                               change |-> column])
    /\ ret' = [op |-> "none"]
    /\ UNCHANGED <<next_uuid, log_calls, threads, notCot, bootVars>>

\* A removal made directly in storage: DELETE FROM agent_traces WHERE
\* trace_id = <id>; it is recorded whether the row had a successor.
TamperRemove(trace_id) ==
    /\ tampered = None
    /\ \E r \in agent_traces :
         /\ r.trace_id = trace_id
         /\ agent_traces' = agent_traces \ {r}
         /\ tampered' = Some([trace_id |-> trace_id, session_id |-> r.session_id,
                               change |-> IF HasSuccessor(agent_traces, r)
                                          THEN "removed" ELSE "removed_final"])
    /\ ret' = [op |-> "none"]
    /\ UNCHANGED <<next_uuid, log_calls, threads, notCot, bootVars>>

\* local_engine.py:304-315  the first half of log_reasoning_step as one thread
\* runs it: the trace id is drawn and the predecessor read.
LogRead(t, agent_id, session_id, step_type, content) ==
    /\ threads[t].pc = "idle"
    /\ Cardinality(agent_traces)
         + Cardinality({u \in Threads : threads[u].pc = "insert"}) < MaxTraces
    /\ \E rows \in PredecessorQuery(agent_traces, session_id) :
         threads' = [threads EXCEPT ![t] =
                        [pc |-> "insert", trace_id |-> next_uuid, agent_id |-> agent_id,
                         session_id |-> session_id, step_type |-> step_type,
                         content |-> content, rows |-> rows]]
    /\ next_uuid' = next_uuid + 1
    /\ Ensure(COT_SCHEMA)
    /\ UNCHANGED <<agent_traces, ret, log_calls, tampered, notCot>>

\* local_engine.py:317-330  the second half: the hash is computed from what
\* was read and the row inserted.
LogInsert(t) ==
    /\ threads[t].pc = "insert"
    /\ LET c == threads[t]
       IN  /\ agent_traces' = agent_traces \cup
                 {NewTrace(c.trace_id, c.agent_id, c.session_id, c.step_type,
                           c.content, c.rows)}
           /\ log_calls' = [log_calls EXCEPT ![c.session_id] = Append(@, c.trace_id)]
    /\ threads' = [threads EXCEPT ![t] = [pc |-> "idle"]]
    /\ ret' = [op |-> "log_reasoning_step", trace_id |-> threads[t].trace_id]
    /\ UNCHANGED <<next_uuid, tampered, notCot, bootVars>>

\* ------------------------------------------------------------------ agent state

StateRows(rows, agent_id, key) == {r \in rows : r.agent_id = agent_id /\ r.key = key}

\* A mutant of UpsertState: the conflict target is the key alone.
UpsertStateByKey(rows, agent_id, key, json_val) ==
    LET hit == {r \in rows : r.key = key}
    IN  IF hit = {}
        THEN rows \cup {[agent_id |-> agent_id, key |-> key, value |-> json_val,
                         version |-> 1]}
        ELSE (rows \ hit) \cup
                {[r EXCEPT !.value = json_val, !.version = r.version + 1] : r \in hit}

\* local_engine.py:266-274  INSERT INTO agent_state (agent_id, key, value)
\* VALUES ... ON CONFLICT (agent_id, key) DO UPDATE SET value = EXCLUDED.value,
\* version = version + 1; a new row takes the column default version 1
\* (local_engine.py:88).
UpsertState(rows, agent_id, key, json_val) ==
    LET hit == StateRows(rows, agent_id, key)
    IN  IF hit = {}
        THEN rows \cup {[agent_id |-> agent_id, key |-> key, value |-> json_val,
                         version |-> 1]}
        ELSE (rows \ hit) \cup
                {[r EXCEPT !.value = json_val, !.version = r.version + 1] : r \in hit}

RECURSIVE SumOver(_, _)
SumOver(f, keys) ==
    IF keys = {} THEN 0
    ELSE LET k == CHOOSE x \in keys : TRUE IN f[k] + SumOver(f, keys \ {k})

SetCallsMade == SumOver(set_calls, DOMAIN set_calls)

\* local_engine.py:261-274  set_state.
SetState(agent_id, key, value) ==
    /\ SetCallsMade < MaxSets
    /\ agent_state' = UpsertState(agent_state, agent_id, key, JsonDumps(value))
    /\ set_calls' = [set_calls EXCEPT ![agent_id, key] = @ + 1]
    /\ last_set' = [last_set EXCEPT ![agent_id, key] = Some(value)]
    /\ ret' = [op |-> "set_state"]
    /\ Ensure(MEMORY_SCHEMA)
    /\ UNCHANGED <<next_uuid, notState>>

\* local_engine.py:254-259  what get_state makes of the rows it selected:
\* the decoded value of the first row, its raw text when decoding fails,
\* None when there is no row.
StateValueOf(row) ==
    LET r == JsonLoads(row.value)
    IN  IF r.ok THEN r.v ELSE PyStr(row.value)

\* local_engine.py:245-259  get_state.
GetState(agent_id, key) ==
    /\ LET rows == StateRows(agent_state, agent_id, key)
       IN  \/ /\ rows = {}
              /\ ret' = [op |-> "get_state", agent_id |-> agent_id, key |-> key,
                         value |-> PyNone]
           \/ \E r \in rows :
                ret' = [op |-> "get_state", agent_id |-> agent_id, key |-> key,
                        value |-> StateValueOf(r)]
    /\ Ensure(MEMORY_SCHEMA)
    /\ UNCHANGED <<next_uuid, agent_state, set_calls, last_set, notState>>

\* ------------------------------------------------------------------ memory store

\* str.lower() and ILIKE's case folding, on the letters the inputs use.
LowerChar(c) == CASE c = "A" -> "a" [] c = "B" -> "b" [] OTHER -> c

LowerText(text) == [i \in 1..Len(text) |-> LowerChar(text[i])]

\* Whether `needle` occurs in `hay` as a run of consecutive characters.
Contains(hay, needle) ==
    \E i \in 0..(Len(hay) - Len(needle)) : SubSeq(hay, i + 1, i + Len(needle)) = needle

RECURSIVE LikeMatch(_, _)
\* text LIKE pattern: % stands for any run of characters, _ for any one
\* character, every other character for itself.
LikeMatch(text, pattern) ==
    IF pattern = <<>> THEN text = <<>>
    ELSE IF Head(pattern) = "%"
         THEN \/ LikeMatch(text, Tail(pattern))
              \/ text # <<>> /\ LikeMatch(Tail(text), pattern)
    ELSE /\ text # <<>>
         /\ Head(pattern) = "_" \/ Head(pattern) = Head(text)
         /\ LikeMatch(Tail(text), Tail(pattern))

\* A mutant of ILikePattern: LIKE in place of ILIKE.
LikeCaseSensitive(text, pattern) == LikeMatch(text, pattern)

\* text ILIKE pattern: LIKE ignoring case.
ILikePattern(text, pattern) == LikeMatch(LowerText(text), LowerText(pattern))

\* local_engine.py:229  content ILIKE '%word%'.
ILike(content, word) == ILikePattern(content, <<"%">> \o word \o <<"%">>)

RECURSIVE SplitFrom(_, _, _)
\* str.split() from position i on, `word` being the token read so far.
SplitFrom(text, i, word) ==
    IF i > Len(text) THEN (IF word = <<>> THEN <<>> ELSE <<word>>)
    ELSE IF text[i] = " "
         THEN (IF word = <<>> THEN <<>> ELSE <<word>>) \o SplitFrom(text, i + 1, <<>>)
    ELSE SplitFrom(text, i + 1, Append(word, text[i]))

\* str.split(): the runs of characters between whitespace.
Split(text) == SplitFrom(text, 1, <<>>)

\* A mutant of LongerThanTwo: tokens of 2 characters are kept too.
LongerThanOne(word) == Len(word) > 1

LongerThanTwo(word) == Len(word) > 2

\* local_engine.py:227  words = [w.strip() for w in query_text.split()
\* if len(w.strip()) > 2]
SearchWords(query_text) == SelectSeq(Split(query_text), LongerThanTwo)

RECURSIVE JoinOr(_)
\* " OR ".join(clauses).
JoinOr(clauses) ==
    IF Len(clauses) = 1 THEN clauses[1]
    ELSE clauses[1] \o <<"OR">> \o JoinOr(Tail(clauses))

RECURSIVE JoinAnd(_)
\* " AND ".join(conditions).
JoinAnd(conditions) ==
    IF conditions = <<>> THEN <<>>
    ELSE IF Len(conditions) = 1 THEN conditions[1]
    ELSE conditions[1] \o <<"AND">> \o JoinAnd(Tail(conditions))

\* local_engine.py:226-242  the SQL text search_memory builds, from WHERE
\* on: the arguments are put into the text as they are, agent_id, the words
\* and memory_type between quotes.
SearchMemorySql(agent_id, query_text, top_k, memory_type, min_importance) ==
    LET words == SearchWords(query_text)
        conditions ==
            << <<"agent_id", "=", "'">> \o agent_id \o <<"'">> >>
            \o (IF words # <<>>
                THEN << <<"(">>
                        \o JoinOr([i \in 1..Len(words) |->
                                    <<"content", "ILIKE", "'", "%">> \o words[i]
                                        \o <<"%", "'">>])
                        \o <<")">> >>
                ELSE <<>>)
            \o (IF memory_type # None /\ memory_type[1] # ""
                THEN << <<"memory_type", "=", "'", memory_type[1], "'">> >> ELSE <<>>)
            \o (IF min_importance # None
                THEN << <<"importance", ">=">> \o IntText(min_importance[1]) >> ELSE <<>>)
    IN  <<"WHERE">> \o JoinAnd(conditions)
            \o <<"ORDER BY importance DESC, created_at DESC", "LIMIT">> \o IntText(top_k)

RECURSIVE SqlLex(_, _, _)
\* The tokens the SQL parser reads in a text: the characters between two
\* quotes are one literal ('' inside it being one quote), a run of digits is
\* one number, -- ends the line, and every other piece is a symbol.  `open`
\* is the literal or number being read, or None.  A literal left open is a
\* parse error.
SqlLex(text, open, tokens) ==
    IF open # None /\ IsA(open[1], "lit")
    THEN IF text = <<>> THEN [ok |-> FALSE]
         ELSE IF Head(text) # "'"
              THEN SqlLex(Tail(text), Some([lit |-> Append(open[1].lit, Head(text))]), tokens)
         ELSE IF Len(text) >= 2 /\ text[2] = "'"
              THEN SqlLex(Tail(Tail(text)), Some([lit |-> Append(open[1].lit, "'")]), tokens)
         ELSE SqlLex(Tail(text), None, Append(tokens, open[1]))
    ELSE IF text # <<>> /\ IsDigit(Head(text))
         THEN SqlLex(Tail(text),
                     Some([num |-> (IF open = None THEN 0 ELSE 10 * open[1].num)
                                     + DigitValue(Head(text))]),
                     tokens)
    ELSE LET read == IF open = None THEN tokens ELSE Append(tokens, open[1])
         IN  IF text = <<>> \/ Head(text) = "--" THEN [ok |-> TRUE, tokens |-> read]
             ELSE IF Head(text) = "'" THEN SqlLex(Tail(text), Some([lit |-> <<>>]), read)
             ELSE SqlLex(Tail(text), None, Append(read, [sym |-> Head(text)]))

Sym(s) == [sym |-> s]

MemoryColumns == {"agent_id", "content", "memory_type", "importance"}

\* The value of an operand for a row: a literal's text, a number, or the
\* row's value in a column (memory_type as a text of one piece).
OperandValue(row, token) ==
    IF IsA(token, "lit") THEN [ok |-> TRUE, v |-> token.lit]
    ELSE IF IsA(token, "num") THEN [ok |-> TRUE, v |-> token.num]
    ELSE IF token.sym = "memory_type" THEN [ok |-> TRUE, v |-> <<row.memory_type>>]
    ELSE IF token.sym \in MemoryColumns THEN [ok |-> TRUE, v |-> row[token.sym]]
    ELSE [ok |-> FALSE]

\* A comparison a op b on the values of two operands.  Comparing a text with
\* a number is an error.
Compare(op, a, b, a_is_text, b_is_text) ==
    IF a_is_text # b_is_text THEN [ok |-> FALSE]
    ELSE IF op = "=" THEN [ok |-> TRUE, v |-> a = b]
    ELSE IF op = ">=" /\ ~a_is_text THEN [ok |-> TRUE, v |-> a >= b]
    ELSE IF op = "LIKE" /\ a_is_text THEN [ok |-> TRUE, v |-> LikeMatch(a, b)]
    ELSE IF op = "ILIKE" /\ a_is_text THEN [ok |-> TRUE, v |-> ILikePattern(a, b)]
    ELSE [ok |-> FALSE]

IsText(row, token) ==
    \/ IsA(token, "lit")
    \/ IsA(token, "sym") /\ token.sym \in MemoryColumns \ {"importance"}

\* The element of a set of one element: {F(x) : x \in {e}} names the value
\* of e once for every use F makes of it.
Only(set) == CHOOSE x \in set : TRUE

RECURSIVE EvalOr(_, _, _)
RECURSIVE EvalAnd(_, _, _)
RECURSIVE EvalAtom(_, _, _)

\* a OR b, and a AND b, of two conditions that parsed, b ending the text read.
Either(a, b) == IF ~b.ok THEN b ELSE [ok |-> TRUE, v |-> a.v \/ b.v, next |-> b.next]

Both(a, b) == IF ~b.ok THEN b ELSE [ok |-> TRUE, v |-> a.v /\ b.v, next |-> b.next]

\* What follows a condition a that has been read: OR and another
\* disjunction, or nothing that belongs to it.
OrAfter(a, row, tokens) ==
    IF ~a.ok THEN a
    ELSE IF a.next <= Len(tokens) /\ tokens[a.next] = Sym("OR")
         THEN Only({Either(a, b) : b \in {EvalOr(row, tokens, a.next + 1)}})
    ELSE a

\* The same for AND and another conjunction.
AndAfter(a, row, tokens) ==
    IF ~a.ok THEN a
    ELSE IF a.next <= Len(tokens) /\ tokens[a.next] = Sym("AND")
         THEN Only({Both(a, b) : b \in {EvalAnd(row, tokens, a.next + 1)}})
    ELSE a

\* A condition in parentheses, e being the condition read after "(".
Closed(e, tokens) ==
    IF e.ok /\ e.next <= Len(tokens) /\ tokens[e.next] = Sym(")")
    THEN [ok |-> TRUE, v |-> e.v, next |-> e.next + 1]
    ELSE [ok |-> FALSE]

\* The comparison of the three tokens at i, a and b being its operands.
Compared(a, b, row, tokens, i) ==
    IF ~a.ok \/ ~b.ok THEN [ok |-> FALSE]
    ELSE Only({IF c.ok THEN [ok |-> TRUE, v |-> c.v, next |-> i + 3] ELSE [ok |-> FALSE] :
               c \in {Compare(tokens[i + 1].sym, a.v, b.v,
                              IsText(row, tokens[i]), IsText(row, tokens[i + 2]))}})

\* The condition that starts at token i, for a row: whether it parses,
\* its value, and the position after it.  OR binds weaker than AND.
EvalOr(row, tokens, i) ==
    Only({OrAfter(a, row, tokens) : a \in {EvalAnd(row, tokens, i)}})

EvalAnd(row, tokens, i) ==
    Only({AndAfter(a, row, tokens) : a \in {EvalAtom(row, tokens, i)}})

EvalAtom(row, tokens, i) ==
    IF i > Len(tokens) THEN [ok |-> FALSE]
    ELSE IF tokens[i] = Sym("(")
         THEN Only({Closed(e, tokens) : e \in {EvalOr(row, tokens, i + 1)}})
    ELSE IF i + 2 > Len(tokens) \/ ~IsA(tokens[i + 1], "sym") THEN [ok |-> FALSE]
    ELSE Only({Compared(a, b, row, tokens, i) :
               a \in {OperandValue(row, tokens[i])},
               b \in {OperandValue(row, tokens[i + 2])}})

\* The statement read from its tokens: WHERE, a condition, and ORDER BY ...
\* LIMIT n after it.
EvalStatement(e, tokens) ==
    IF /\ e.ok
       /\ e.next + 2 = Len(tokens)
       /\ tokens[e.next] = Sym("ORDER BY importance DESC, created_at DESC")
       /\ tokens[e.next + 1] = Sym("LIMIT")
       /\ IsA(tokens[e.next + 2], "num")
    THEN [ok |-> TRUE, v |-> e.v]
    ELSE [ok |-> FALSE]

\* The statement search_memory sends, for a row: whether the text is one
\* SELECT ... WHERE condition ORDER BY ... LIMIT n, and whether the row
\* passes the condition.
EvalTokens(row, lexed) ==
    IF ~lexed.ok \/ lexed.tokens = <<>> \/ lexed.tokens[1] # Sym("WHERE")
    THEN [ok |-> FALSE]
    ELSE Only({EvalStatement(e, lexed.tokens) : e \in {EvalOr(row, lexed.tokens, 2)}})

EvalSearch(row, text) ==
    Only({EvalTokens(row, lexed) : lexed \in {SqlLex(text, None, <<>>)}})

\* A row of the table's columns, for asking whether a text parses.
AnyMemory ==
    [memory_id |-> 0, agent_id |-> <<>>, content |-> <<>>, memory_type |-> "",
     importance |-> 0, created_at |-> 0]

\* Whether the text search_memory builds from its arguments is a statement.
SearchParses(agent_id, query_text, top_k, memory_type, min_importance) ==
    EvalSearch(AnyMemory,
               SearchMemorySql(agent_id, query_text, top_k, memory_type, min_importance)).ok

\* local_engine.py:226-236  the WHERE clause search_memory builds, as the
\* database evaluates it for a row.  top_k is not part of the condition.
MemoryQualifies(row, agent_id, query_text, memory_type, min_importance) ==
    \E e \in {EvalSearch(row, SearchMemorySql(agent_id, query_text, 1, memory_type,
                                               min_importance))} : e.ok /\ e.v

\* local_engine.py:240  ORDER BY importance DESC, created_at DESC: whether
\* row r must come before row q.
RanksBefore(r, q) ==
    \/ r.importance > q.importance
    \/ r.importance = q.importance /\ r.created_at > q.created_at

\* The listings ORDER BY importance DESC, created_at DESC can give: rows that
\* tie on both come in any order.
OrderByImportance(rows) ==
    {q \in [1..Cardinality(rows) -> rows] :
        /\ \A i, j \in 1..Cardinality(rows) : i < j => q[i] # q[j]
        /\ \A i, j \in 1..Cardinality(rows) : i < j => ~RanksBefore(q[j], q[i])}

\* LIMIT n.
Limit(rows, n) == SubSeq(rows, 1, IF n < Len(rows) THEN n ELSE Len(rows))

\* local_engine.py:194-213  store_memory; created_at takes the column default,
\* the clock's second (local_engine.py:78), which may or may not have moved
\* on since the last call.
StoreMemory(agent_id, content, memory_type, importance) ==
    /\ next_uuid < MaxMemories
    /\ \E t \in {now, now + 1} :
         /\ now' = t
         /\ agent_memories' = agent_memories \cup
              {[memory_id |-> next_uuid, agent_id |-> agent_id, content |-> content,
                memory_type |-> memory_type, importance |-> importance,
                created_at |-> t]}
    /\ ret' = [op |-> "store_memory", memory_id |-> next_uuid]
    /\ next_uuid' = next_uuid + 1
    /\ Ensure(MEMORY_SCHEMA)
    /\ UNCHANGED notMem

\* local_engine.py:215-243  search_memory.
SearchMemory(agent_id, query_text, top_k, memory_type, min_importance) ==
    /\ IF SearchParses(agent_id, query_text, top_k, memory_type, min_importance)
       THEN \E selected \in {{r \in agent_memories :
                                 MemoryQualifies(r, agent_id, query_text, memory_type,
                                                 min_importance)}} :
              \E rows \in OrderByImportance(selected) :
                ret' = [op |-> "search_memory", agent_id |-> agent_id,
                        query_text |-> query_text, top_k |-> top_k,
                        memory_type |-> memory_type, min_importance |-> min_importance,
                        rows |-> Limit(rows, top_k)]
       ELSE ret' = [op |-> "search_memory_raised", agent_id |-> agent_id,
                    query_text |-> query_text]
    /\ Ensure(MEMORY_SCHEMA)
    /\ UNCHANGED <<next_uuid, memVars, notMem>>

\* A mutant of DeleteMemory: the DELETE has no WHERE clause.
DeleteMemoryNoWhere(memory_id) ==
    /\ LET before == {r \in agent_memories : r.memory_id = memory_id}
       IN  IF Cardinality(before) > 0
           THEN /\ agent_memories' = {}
                /\ ret' = [op |-> "delete_memory", memory_id |-> memory_id,
                           deleted |-> TRUE]
           ELSE /\ agent_memories' = agent_memories
                /\ ret' = [op |-> "delete_memory", memory_id |-> memory_id,
                           deleted |-> FALSE]
    /\ Ensure(MEMORY_SCHEMA)
    /\ UNCHANGED <<next_uuid, now, notMem>>

\* local_engine.py:276-290  delete_memory.
DeleteMemory(memory_id) ==
    /\ LET before == {r \in agent_memories : r.memory_id = memory_id}
       IN  IF Cardinality(before) > 0
           THEN /\ agent_memories' = agent_memories \ before
                /\ ret' = [op |-> "delete_memory", memory_id |-> memory_id,
                           deleted |-> TRUE]
           ELSE /\ agent_memories' = agent_memories
                /\ ret' = [op |-> "delete_memory", memory_id |-> memory_id,
                           deleted |-> FALSE]
    /\ Ensure(MEMORY_SCHEMA)
    /\ UNCHANGED <<next_uuid, now, notMem>>

\* ------------------------------------------------------------------ dispatcher envelope

\* mcp_server.py:456-458  _ok(data): a content list of one text item and no
\* isError field.  The text, json.dumps(data, default=str), is modelled by
\* the data it is the JSON text of.
Ok(data) == [content |-> <<[type |-> "text", text |-> data]>>]

\* mcp_server.py:461-463  _err(msg).
Err(msg) == [content |-> <<[type |-> "text", text |-> msg]>>, isError |-> TRUE]

\* mcp_server.py:897  f"Error: {e}", e being named by its exception class.
ErrorText(e) == <<"Error: ", e>>

\* mcp_server.py:894  f"Unknown tool: {tool_name}".
UnknownToolText(tool_name) == <<"Unknown tool: ", tool_name>>

\* What a handler leaves: the result for the caller and the tables it works on.
Outcome(result, store) == [result |-> result, store |-> store]

\* dict.get(key, default).
Get(arguments, key, default) ==
    IF key \in DOMAIN arguments THEN arguments[key] ELSE default

\* The data carried by a result's text item.
Payload(result) == result.content[1].text

IsError(result) == "isError" \in DOMAIN result

\* mcp_server.py:527-543  the store_memory tool.  Both paths pass the
\* arguments on as they are: the local one to the engine with the agent id
\* the server was started with (mcp_server.py:1002), the remote one to the
\* client (client.py:295-323), which inserts the same row.
CallStoreMemory(agent_id, arguments) ==
    IF "content" \notin DOMAIN arguments
    THEN /\ ret' = [op |-> "store_memory", arguments |-> arguments,
                    result |-> Err(ErrorText("KeyError"))]
         /\ UNCHANGED <<next_uuid, memVars, notMem, bootVars>>
    ELSE /\ next_uuid < MaxMemories
         /\ \E t \in {now, now + 1} :
              /\ now' = t
              /\ agent_memories' = agent_memories \cup
                   {[memory_id |-> next_uuid, agent_id |-> agent_id,
                     content |-> arguments.content,
                     memory_type |-> Get(arguments, "memory_type", "fact"),
                     importance |-> Get(arguments, "importance", 5),
                     created_at |-> t]}
         /\ ret' = [op |-> "store_memory", arguments |-> arguments,
                    result |-> Ok([memory_id |-> next_uuid])]
         /\ next_uuid' = next_uuid + 1
         /\ Ensure(MEMORY_SCHEMA)
         /\ UNCHANGED notMem

\* ------------------------------------------------------------------ branches

\* Schema names as they stand in a search path.
MainSchema == [schema |-> "main"]

BranchSchema(branch_id) == [schema |-> "branch", id |-> branch_id]

View(table) == [type |-> "VIEW", of |-> table]

BaseTable(rows) == [type |-> "BASE TABLE", rows |-> rows]

\* A function with `key` mapped to `value`, `key` added when it is new.
Put(f, key, value) == [k \in DOMAIN f \cup {key} |-> IF k = key THEN value ELSE f[k]]

\* A mutant of Drop: the cascade takes every entry with it.
DropEvery(f, key) == [k \in {} |-> f[k]]

Drop(f, key) == [k \in DOMAIN f \ {key} |-> f[k]]

\* local_engine.py:545-549  the BASE TABLE entries of a branch schema.
Materialized(schema) == {n \in DOMAIN schema : schema[n].type = "BASE TABLE"}

\* A mutant of BranchViews: empty tables of main's names in place of views
\* (CREATE TABLE ... AS SELECT * FROM main.<t> LIMIT 0).
BranchViewsAsEmptyTables(tables) == [n \in DOMAIN tables |-> BaseTable({})]

\* local_engine.py:491-499  one view per base table of main.
BranchViews(tables) == [n \in DOMAIN tables |-> View(n)]

\* local_engine.py:478-509  branch_create, under mcp_server.py:789-816.
BranchCreate ==
    /\ next_uuid < MaxBranches
    /\ branches' = Put(branches, next_uuid, BranchViews(main))
    /\ ret' = [op |-> "branch_create",
               result |-> Ok([branch_id |-> next_uuid,
                              table_count |-> Cardinality(DOMAIN main)])]
    /\ next_uuid' = next_uuid + 1
    /\ UNCHANGED <<main, gone, search_path, notBranch>>

\* A mutant of ResolveRows: a view is read as the (empty) relation it was
\* when nothing had been written to main, not through to main's table.
ResolveRowsViewNotReadThrough(schema, tables, table) ==
    IF table \in DOMAIN schema
    THEN IF schema[table].type = "BASE TABLE" THEN Some(schema[table].rows)
         ELSE Some({})
    ELSE IF table \in DOMAIN tables THEN Some(tables[table])
    ELSE None

\* The rows a name resolves to under search_path = 'branch_<id>,main'
\* (local_engine.py:523): the branch's own object first, a view being read
\* through to main; None when nothing of that name can be read.
ResolveRows(schema, tables, table) ==
    IF table \in DOMAIN schema
    THEN IF schema[table].type = "BASE TABLE" THEN Some(schema[table].rows)
         ELSE IF schema[table].of \in DOMAIN tables THEN Some(tables[schema[table].of])
         ELSE None
    ELSE IF table \in DOMAIN tables THEN Some(tables[table])
    ELSE None

\* A mutant of WriteTarget: main is searched before the branch schema.
WriteTargetMainFirst(schema, tables, table) ==
    IF table \in DOMAIN tables THEN "main"
    ELSE IF table \in DOMAIN schema
         THEN IF schema[table].type = "BASE TABLE" THEN "branch" ELSE "view"
         ELSE "none"

\* The object an unqualified name in INSERT, UPDATE or DELETE resolves to
\* under search_path = 'branch_<id>,main' (local_engine.py:523): the
\* branch's own table, the branch's view (which cannot be written), main's
\* table when the branch has nothing of that name, or nothing.
WriteTarget(schema, tables, table) ==
    IF table \in DOMAIN schema
    THEN IF schema[table].type = "BASE TABLE" THEN "branch" ELSE "view"
    ELSE IF table \in DOMAIN tables THEN "main"
    ELSE "none"

\* The rows of a table after one of the writing statements.
RowsAfter(kind, rows) ==
    CASE kind = "insert" -> rows \cup {3}
      [] kind = "update" -> IF 1 \in rows THEN (rows \ {1}) \cup {3} ELSE rows
      [] kind = "delete" -> rows \ {1}

\* What a statement does under the branch's search path: whether it raised,
\* the rows it returned, and the branch schema and main after it.
RunInBranch(schema, tables, stmt) ==
    LET failed == [ok |-> FALSE, rows |-> {}, schema |-> schema, tables |-> tables]
        done(rows, sch, tabs) == [ok |-> TRUE, rows |-> rows, schema |-> sch, tables |-> tabs]
        t == stmt.table
        target == WriteTarget(schema, tables, t)
    IN  CASE stmt.kind = "select" ->
               IF ResolveRows(schema, tables, t) = None THEN failed
               ELSE done(ResolveRows(schema, tables, t)[1], schema, tables)
          [] stmt.kind = "materialize" ->
               IF t \in DOMAIN schema /\ schema[t].type = "VIEW" /\ t \in DOMAIN tables
               THEN done({}, Put(schema, t, BaseTable(tables[t])), tables)
               ELSE failed
          [] stmt.kind \in WriteKinds ->
               CASE target = "branch" ->
                      done({}, Put(schema, t, BaseTable(RowsAfter(stmt.kind, schema[t].rows))),
                           tables)
                 [] target = "main" ->
                      done({}, schema, Put(tables, t, RowsAfter(stmt.kind, tables[t])))
                 [] OTHER -> failed
          [] stmt.kind = "create" ->
               IF t \in DOMAIN schema THEN failed
               ELSE done({}, Put(schema, t, BaseTable({3})), tables)

\* A mutant of SearchPathAfter: the path is restored after a statement that
\* succeeded only (no finally clause).
SearchPathRestoredOnSuccess(branch_id, ok) ==
    IF ok THEN <<MainSchema>> ELSE <<BranchSchema(branch_id), MainSchema>>

\* local_engine.py:523-527  the search path branch_query leaves behind once
\* it has set 'branch_<id>,main' and the statement has returned (ok) or
\* raised: the finally clause sets 'main' on both ways out.
SearchPathAfter(branch_id, ok) == <<MainSchema>>

\* Schema main, the branch schemas and the search path as one value.
BranchStore(tables, schemas, path) ==
    [main |-> tables, branches |-> schemas, search_path |-> path]

\* local_engine.py:523-527  the statement run with the branch schema first
\* in the search path, and the path restored.
RanInBranch(store, branch_id, stmt) ==
    LET r == RunInBranch(store.branches[branch_id], store.main, stmt)
    IN  Outcome(IF r.ok THEN Ok([rows |-> r.rows])
                ELSE Err(ErrorText("CatalogException")),
                BranchStore(r.tables, [store.branches EXCEPT ![branch_id] = r.schema],
                            SearchPathAfter(branch_id, r.ok)))

\* mcp_server.py:818-828  branch_query.  The engine (local_engine.py:511-527)
\* answers a missing branch with an error row inside a successful result,
\* before the search path is touched; the remote path sets the search path
\* first, which raises when the schema is missing, and reads the sql
\* argument inside its try block.  A statement that raises is answered with
\* _err (mcp_server.py:896-897).
BranchQueryOutcome(store, arguments, local) ==
    IF "branch_id" \notin DOMAIN arguments \/ (local /\ "sql" \notin DOMAIN arguments)
    THEN Outcome(Err(ErrorText("KeyError")), store)
    ELSE IF arguments.branch_id \notin DOMAIN store.branches
         THEN IF local THEN Outcome(Ok([error |-> "Branch not found"]), store)
              ELSE Outcome(Err(ErrorText("CatalogException")), store)
         ELSE IF "sql" \notin DOMAIN arguments
              THEN Outcome(Err(ErrorText("KeyError")),
                           [store EXCEPT !.search_path =
                                SearchPathAfter(arguments.branch_id, FALSE)])
              ELSE RanInBranch(store, arguments.branch_id, arguments.sql)

\* The branch tables after a call on the local engine, and what is left alone.
BranchReturned(o) ==
    /\ main' = o.store.main
    /\ branches' = o.store.branches
    /\ search_path' = o.store.search_path
    /\ gone' = gone \cup (DOMAIN branches \ DOMAIN o.store.branches)
    /\ UNCHANGED <<next_uuid, notBranch>>

\* local_engine.py:511-527  branch_query, under mcp_server.py:818-828.
BranchQuery(branch_id, stmt) ==
    LET o == BranchQueryOutcome(BranchStore(main, branches, search_path),
                                [branch_id |-> branch_id, sql |-> stmt], TRUE)
    IN  /\ ret' = [op |-> "branch_query", branch_id |-> branch_id, stmt |-> stmt,
                   result |-> o.result]
        /\ BranchReturned(o)

\* A mutant of MergeTables: the materialized tables are copied to main under
\* every strategy.
MergeTablesAnyStrategy(tables, schema, strategy) ==
    [n \in DOMAIN tables \cup Materialized(schema) |->
        IF n \in Materialized(schema) THEN schema[n].rows ELSE tables[n]]

\* A mutant of MergeTables: main's table is kept when it exists already.
MergeTablesKeepExisting(tables, schema, strategy) ==
    IF strategy = "branch_wins"
    THEN [n \in DOMAIN tables \cup Materialized(schema) |->
             IF n \in DOMAIN tables THEN tables[n] ELSE schema[n].rows]
    ELSE tables

\* local_engine.py:551-562  main after the merge loop: under branch_wins each
\* materialized table is dropped from main if there and created again from
\* the branch's rows; under any other strategy nothing is done.
MergeTables(tables, schema, strategy) ==
    IF strategy = "branch_wins"
    THEN [n \in DOMAIN tables \cup Materialized(schema) |->
             IF n \in Materialized(schema) THEN schema[n].rows ELSE tables[n]]
    ELSE tables

\* local_engine.py:551-562  the count the merge loop returns.
MergedCount(schema, strategy) ==
    IF strategy = "branch_wins" THEN Cardinality(Materialized(schema)) ELSE 0

\* mcp_server.py:830-855  branch_merge.  The engine (local_engine.py:529-572)
\* answers a missing branch with an error entry inside a successful result;
\* the remote path finds no table to merge and then raises in DROP SCHEMA.
\* The remote result does not name the strategy.
BranchMergeOutcome(store, arguments, local) ==
    IF "branch_id" \notin DOMAIN arguments
    THEN Outcome(Err(ErrorText("KeyError")), store)
    ELSE LET id       == arguments.branch_id
             strategy == Get(arguments, "strategy", "branch_wins")
         IN  IF id \notin DOMAIN store.branches
             THEN IF local
                  THEN Outcome(Ok([error |-> "Branch not found", merged |-> 0]), store)
                  ELSE Outcome(Err(ErrorText("CatalogException")), store)
             ELSE LET merged == MergedCount(store.branches[id], strategy)
                      after  == BranchStore(MergeTables(store.main, store.branches[id],
                                                        strategy),
                                            Drop(store.branches, id), store.search_path)
                  IN  IF local
                      THEN Outcome(Ok([branch_id |-> id, strategy |-> strategy,
                                       merged |-> merged, status |-> "completed"]), after)
                      ELSE Outcome(Ok([branch_id |-> id, merged |-> merged,
                                       status |-> "completed"]), after)

\* local_engine.py:529-572  branch_merge, under mcp_server.py:830-855.
BranchMerge(branch_id, strategy) ==
    LET o == BranchMergeOutcome(BranchStore(main, branches, search_path),
                                [branch_id |-> branch_id, strategy |-> strategy], TRUE)
    IN  /\ ret' = [op |-> "branch_merge", branch_id |-> branch_id,
                   strategy |-> strategy, result |-> o.result]
        /\ BranchReturned(o)

\* A mutant of BranchDiscardOutcome: the cascade also drops the tables of
\* main the branch's views read.
BranchDiscardOutcomeDropsViewed(store, arguments, local) ==
    IF "branch_id" \notin DOMAIN arguments
    THEN Outcome(Err(ErrorText("KeyError")), store)
    ELSE LET id == arguments.branch_id
         IN  IF id \notin DOMAIN store.branches
             THEN Outcome(Ok([discarded |-> ~local, branch_id |-> id]), store)
             ELSE Outcome(Ok([discarded |-> TRUE, branch_id |-> id]),
                          [store EXCEPT
                             !.branches = Drop(store.branches, id),
                             !.main = [n \in {m \in DOMAIN store.main :
                                                m \notin DOMAIN store.branches[id]
                                                \/ store.branches[id][m].type = "BASE TABLE"}
                                         |-> store.main[n]]])

\* mcp_server.py:857-864  branch_discard.  The engine (local_engine.py:
\* 574-585) reports whether the schema was there; the remote path runs DROP
\* SCHEMA IF EXISTS and reports true.
BranchDiscardOutcome(store, arguments, local) ==
    IF "branch_id" \notin DOMAIN arguments
    THEN Outcome(Err(ErrorText("KeyError")), store)
    ELSE LET id == arguments.branch_id
         IN  IF id \notin DOMAIN store.branches
             THEN Outcome(Ok([discarded |-> ~local, branch_id |-> id]), store)
             ELSE Outcome(Ok([discarded |-> TRUE, branch_id |-> id]),
                          [store EXCEPT !.branches = Drop(store.branches, id)])

\* local_engine.py:574-585  branch_discard, under mcp_server.py:857-864.
BranchDiscard(branch_id) ==
    LET o == BranchDiscardOutcome(BranchStore(main, branches, search_path),
                                  [branch_id |-> branch_id], TRUE)
    IN  /\ ret' = [op |-> "branch_discard", branch_id |-> branch_id,
                   result |-> o.result]
        /\ BranchReturned(o)

\* mcp_server.py:476-478  the query tool running INSERT INTO <table>
\* VALUES (3), the name unqualified: it is resolved along the connection's
\* search path, so in main alone when the path is 'main', and as inside
\* branch_query when a branch schema stands first.  A name that resolves to
\* no table raises and is answered with _err.
QueryInsert(table) ==
    LET first == search_path[1]
        stmt  == [kind |-> "insert", table |-> table]
    IN  /\ IF first # MainSchema /\ first.id \in DOMAIN branches
           THEN LET r == RunInBranch(branches[first.id], main, stmt)
                IN  /\ branches' = [branches EXCEPT ![first.id] = r.schema]
                    /\ main' = r.tables
                    /\ ret' = [op |-> "query",
                               result |-> IF r.ok THEN Ok([rows |-> {}]) ELSE Err(ErrorText("CatalogException"))]
           ELSE /\ branches' = branches
                /\ IF table \in DOMAIN main
                   THEN /\ main' = Put(main, table, RowsAfter("insert", main[table]))
                        /\ ret' = [op |-> "query", result |-> Ok([rows |-> {}])]
                   ELSE /\ main' = main
                        /\ ret' = [op |-> "query", result |-> Err(ErrorText("CatalogException"))]
        /\ UNCHANGED <<next_uuid, gone, search_path, notBranch>>

\* ------------------------------------------------------------------ SQL tools

RECURSIVE LStrip(_)
\* str.lstrip(): the text without its leading blanks.
LStrip(text) ==
    IF text # <<>> /\ Head(text) = " " THEN LStrip(Tail(text)) ELSE text

RECURSIVE RStrip(_, _)
\* str.rstrip(c): the text without its trailing tokens c.
RStrip(text, c) ==
    IF text # <<>> /\ text[Len(text)] = c
    THEN RStrip(SubSeq(text, 1, Len(text) - 1), c) ELSE text

\* mcp_server.py:481  arguments["sql"].strip().rstrip(";").
StripSql(text) == RStrip(RStrip(LStrip(text), " "), ";")

\* mcp_server.py:482  f"SELECT * FROM ({sql}) AS _readonly".
WrapReadOnly(sql) == <<"SELECT * FROM", "(">> \o sql \o <<")", "AS _readonly">>

RECURSIVE SplitStatements(_, _)
\* The statements of a text: the runs of tokens between semicolons, blanks
\* and empty statements left out.
SplitStatements(text, statement) ==
    IF text = <<>> THEN (IF statement = <<>> THEN <<>> ELSE <<statement>>)
    ELSE IF Head(text) = ";"
         THEN (IF statement = <<>> THEN <<>> ELSE <<statement>>)
                \o SplitStatements(Tail(text), <<>>)
    ELSE IF Head(text) = " " THEN SplitStatements(Tail(text), statement)
    ELSE SplitStatements(Tail(text), Append(statement, Head(text)))

Aliases == {"AS a", "AS _readonly"}

RECURSIVE IsSelect(_)
\* The selects of the grammar: SELECT 1, and SELECT * FROM (select) AS name.
IsSelect(statement) ==
    \/ statement = <<"SELECT 1">>
    \/ /\ Len(statement) >= 5
       /\ statement[1] = "SELECT * FROM"
       /\ statement[2] = "("
       /\ statement[Len(statement) - 1] = ")"
       /\ statement[Len(statement)] \in Aliases
       /\ IsSelect(SubSeq(statement, 3, Len(statement) - 2))

IsDropTable(statement) == statement = <<"DROP TABLE t">>

RECURSIVE RunStatements(_, _)
\* local_engine.py:165  conn.execute(sql) on parsed statements: they are run
\* one after the other, each committed as it ends; the first that raises
\* ends the call, and the rows are those of the last statement.
RunStatements(tables, statements) ==
    IF statements = <<>> THEN [ok |-> TRUE, rows |-> {}, tables |-> tables]
    ELSE LET statement == Head(statements)
         IN  IF IsDropTable(statement)
             THEN IF "t" \in DOMAIN tables
                  THEN RunStatements(Drop(tables, "t"), Tail(statements))
                  ELSE [ok |-> FALSE, rows |-> {}, tables |-> tables]
             ELSE IF Len(statements) = 1
                  THEN [ok |-> TRUE, rows |-> {1}, tables |-> tables]
                  ELSE RunStatements(tables, Tail(statements))

\* local_engine.py:152-170  query(sql) on schema main: the whole text is
\* parsed first, so a text with a statement outside the grammar raises
\* before anything is run.
RunSql(tables, text) ==
    LET statements == SplitStatements(text, <<>>)
    IN  IF \A i \in 1..Len(statements) :
               IsSelect(statements[i]) \/ IsDropTable(statements[i])
        THEN RunStatements(tables, statements)
        ELSE [ok |-> FALSE, rows |-> {}, tables |-> tables]

\* mcp_server.py:480-483  the read_query tool.
CallReadQuery(arguments) ==
    /\ IF "sql" \notin DOMAIN arguments
       THEN /\ ret' = [op |-> "read_query", arguments |-> arguments,
                       result |-> Err(ErrorText("KeyError"))]
            /\ main' = main
       ELSE LET r == RunSql(main, WrapReadOnly(StripSql(arguments.sql)))
            IN  /\ ret' = [op |-> "read_query", arguments |-> arguments,
                           result |-> IF r.ok THEN Ok([rows |-> r.rows])
                                      ELSE Err(ErrorText("ParserOrCatalogException"))]
                /\ main' = r.tables
    /\ UNCHANGED <<next_uuid, branches, gone, search_path, notBranch>>

\* ------------------------------------------------------------------ triggers

\* The trigger table as one value: whether it exists, and its rows.
TriggerStore(exists, rows) == [exists |-> exists, rows |-> rows]

\* The seconds strftime(now(), ...) can give at the next call: the clock's
\* second may or may not have moved on.
ClockReadings == {t \in {now, now + 1} : t <= MaxClock}

\* local_engine.py:409-414  the row INSERT adds, the other columns taking
\* their defaults (local_engine.py:132-146, mcp_server.py:713-722); none of
\* the calls made passes action_type or action_config.
NewTrigger(trigger_id, arguments, t) ==
    [trigger_id |-> trigger_id, name |-> arguments.name, concept |-> arguments.concept,
     threshold |-> Get(arguments, "threshold", 7), action_type |-> "flag_for_review",
     enabled |-> TRUE, created_at |-> t, updated_at |-> t]

\* mcp_server.py:699-733  register_trigger.  Locally the arguments are read
\* before the engine is called (local_engine.py:396-415); remotely the schema
\* and the table are created before the first argument is read.
RegisterTriggerOutcomes(store, arguments, local, trigger_id, times) ==
    IF {"name", "concept"} \subseteq DOMAIN arguments
    THEN {Outcome(Ok([trigger_id |-> trigger_id, name |-> arguments.name]),
                  TriggerStore(TRUE, store.rows \cup {NewTrigger(trigger_id, arguments, t)})) :
            t \in times}
    ELSE {Outcome(Err(ErrorText("KeyError")),
                  IF local THEN store ELSE TriggerStore(TRUE, store.rows))}

\* local_engine.py:427  ORDER BY created_at DESC: the listings it can give,
\* rows of one second coming in any order.
OrderByCreatedAt(rows) ==
    {q \in [1..Cardinality(rows) -> rows] :
        /\ \A i, j \in 1..Cardinality(rows) : i < j => q[i] # q[j]
        /\ \A i, j \in 1..Cardinality(rows) : i < j => q[i].created_at >= q[j].created_at}

\* A mutant of StatusFilter: "inactive" filters nothing.
StatusFilterActiveOnly(row, status) ==
    status = Some("active") => row.enabled

\* local_engine.py:421-425  the WHERE clause list_triggers builds from
\* status, an optional text.
StatusFilter(row, status) ==
    CASE status = Some("active") -> row.enabled
      [] status = Some("inactive") -> ~row.enabled
      [] OTHER -> TRUE

\* local_engine.py:417-428  the listings list_triggers can return.
ListTriggers(rows, status) ==
    OrderByCreatedAt({r \in rows : StatusFilter(r, status)})

\* mcp_server.py:735-748  list_triggers.  The engine creates the table when
\* it is missing (local_engine.py:419); the remote path queries it as it is.
ListTriggersOutcomes(store, arguments, local) ==
    LET status == IF "status" \in DOMAIN arguments THEN Some(arguments.status) ELSE None
    IN  IF ~local /\ ~store.exists
        THEN {Outcome(Err(ErrorText("CatalogException")), store)}
        ELSE {Outcome(Ok(listing), TriggerStore(TRUE, store.rows)) :
                listing \in ListTriggers(store.rows, status)}

\* A mutant of SoftDelete: DELETE FROM ... WHERE trigger_id = $1.
HardDelete(rows, trigger_id, t) == {r \in rows : r.trigger_id # trigger_id}

\* local_engine.py:439-444  UPDATE ... SET enabled = FALSE, updated_at = now
\* WHERE trigger_id = $1.
SoftDelete(rows, trigger_id, t) ==
    {IF r.trigger_id = trigger_id
     THEN [r EXCEPT !.enabled = FALSE, !.updated_at = t] ELSE r : r \in rows}

\* mcp_server.py:750-761  delete_trigger.  The engine (local_engine.py:
\* 430-446) looks the row up and reports whether it was there; the remote
\* path runs the UPDATE and reports true.
DeleteTriggerOutcomes(store, arguments, local, times) ==
    IF "trigger_id" \notin DOMAIN arguments
    THEN {Outcome(Err(ErrorText("KeyError")), store)}
    ELSE LET id    == arguments.trigger_id
             found == \E r \in store.rows : r.trigger_id = id
         IN  IF local
             THEN IF found
                  THEN {Outcome(Ok([deleted |-> TRUE, trigger_id |-> id]),
                                TriggerStore(TRUE, SoftDelete(store.rows, id, t))) :
                          t \in times}
                  ELSE {Outcome(Ok([deleted |-> FALSE, trigger_id |-> id]),
                                TriggerStore(TRUE, store.rows))}
             ELSE IF ~store.exists
                  THEN {Outcome(Err(ErrorText("CatalogException")), store)}
                  ELSE {Outcome(Ok([deleted |-> TRUE, trigger_id |-> id]),
                                TriggerStore(TRUE, SoftDelete(store.rows, id, t))) :
                          t \in times}

\* local_engine.py:464  concept_words, of the lowercased concept.
ConceptWords(concept) == SelectSeq(Split(LowerText(concept)), LongerThanTwo)

\* A mutant of MatchedWords: the content is not lowercased.
MatchedWordsCaseSensitive(concept, content) ==
    LET words == ConceptWords(concept)
    IN  Cardinality({i \in 1..Len(words) : Contains(content, words[i])})

\* local_engine.py:461-465  len(matched_words): the concept words (counted
\* with their repetitions) that occur in the lowercased content.
MatchedWords(concept, content) ==
    LET words == ConceptWords(concept)
    IN  Cardinality({i \in 1..Len(words) : Contains(LowerText(content), words[i])})

Max(a, b) == IF a >= b THEN a ELSE b

\* local_engine.py:470  round(m / n, 4) in ten-thousandths, for 0 <= m <= n
\* and n below 16 (where no quotient lies halfway between two values).
Round4(m, n) == (2 * 10000 * m + n) \div (2 * n)

\* local_engine.py:459-474  the result of test_trigger for a trigger found;
\* threshold is in tenths and score in ten-thousandths.
TestResult(trigger, content) ==
    LET m == MatchedWords(trigger.concept, content)
        n == Max(Len(ConceptWords(trigger.concept)), 1)
    IN  [matched |-> 10 * m >= trigger.threshold * n, score |-> Round4(m, n),
         threshold |-> trigger.threshold, trigger_name |-> trigger.name]

\* local_engine.py:473  the engine's result names the concept as well.
WithConcept(result, trigger) ==
    [k \in DOMAIN result \cup {"concept"} |->
        IF k = "concept" THEN trigger.concept ELSE result[k]]

NotFound == [matched |-> FALSE, error |-> "Trigger not found"]

\* mcp_server.py:763-786  test_trigger.  Locally both arguments are read
\* before the engine is called (local_engine.py:448-474); remotely the
\* trigger is looked up first and the content read only when it was found.
TestTriggerOutcomes(store, arguments, local) ==
    LET id      == arguments.trigger_id
        found   == {r \in store.rows : r.trigger_id = id}
        trigger == CHOOSE r \in found : TRUE
    IN  IF local
        THEN IF ~({"trigger_id", "content"} \subseteq DOMAIN arguments)
             THEN {Outcome(Err(ErrorText("KeyError")), store)}
             ELSE IF found = {}
                  THEN {Outcome(Ok(NotFound), TriggerStore(TRUE, store.rows))}
                  ELSE {Outcome(Ok(WithConcept(TestResult(trigger, arguments.content),
                                               trigger)),
                                TriggerStore(TRUE, store.rows))}
        ELSE IF "trigger_id" \notin DOMAIN arguments
             THEN {Outcome(Err(ErrorText("KeyError")), store)}
             ELSE IF ~store.exists
                  THEN {Outcome(Err(ErrorText("CatalogException")), store)}
                  ELSE IF found = {} THEN {Outcome(Ok(NotFound), store)}
                  ELSE IF "content" \notin DOMAIN arguments
                       THEN {Outcome(Err(ErrorText("KeyError")), store)}
                       ELSE {Outcome(Ok(TestResult(trigger, arguments.content)), store)}

\* The trigger table after a call.  A table that is there was created by
\* ensure_trigger_schema on the engine (local_engine.py:122-148) or by the
\* CREATE statements of the remote register_trigger (mcp_server.py:709-721).
TriggerStoreReturned(o) ==
    /\ trigger_schema' = o.store.exists
    /\ trigger_registry' = o.store.rows
    /\ catalog' = IF o.store.exists THEN catalog \cup SchemaObjects(TRIGGER_SCHEMA)
                  ELSE catalog
    /\ initialized_schemas' = IF is_local /\ o.store.exists
                               THEN initialized_schemas \cup {TRIGGER_SCHEMA}
                               ELSE initialized_schemas

\* The trigger table after a call, and the call with its result.
Returned(tool_name, arguments, o) ==
    /\ ret' = [op |-> tool_name, arguments |-> arguments, result |-> o.result]
    /\ TriggerStoreReturned(o)

\* mcp_server.py:699-733  the register_trigger tool.  A uuid is drawn by the
\* engine once the arguments are read, and by the remote path in any case.
CallRegisterTrigger(arguments) ==
    /\ next_uuid < MaxTriggers
    /\ \E t \in ClockReadings :
         \E o \in RegisterTriggerOutcomes(TriggerStore(trigger_schema, trigger_registry),
                                          arguments, is_local, next_uuid, {t}) :
            /\ Returned("register_trigger", arguments, o)
            /\ next_uuid' = IF is_local /\ IsError(o.result) THEN next_uuid
                             ELSE next_uuid + 1
            /\ now' = t
    /\ UNCHANGED notTrigger

\* mcp_server.py:735-748  the list_triggers tool.
CallListTriggers(arguments) ==
    /\ \E o \in ListTriggersOutcomes(TriggerStore(trigger_schema, trigger_registry),
                                      arguments, is_local) :
         Returned("list_triggers", arguments, o)
    /\ UNCHANGED <<next_uuid, now, notTrigger>>

\* mcp_server.py:750-761  the delete_trigger tool.
CallDeleteTrigger(arguments) ==
    /\ \E t \in ClockReadings :
         \E o \in DeleteTriggerOutcomes(TriggerStore(trigger_schema, trigger_registry),
                                        arguments, is_local, {t}) :
            /\ Returned("delete_trigger", arguments, o)
            /\ now' = t
    /\ UNCHANGED <<next_uuid, notTrigger>>

\* mcp_server.py:763-786  the test_trigger tool.
CallTestTrigger(arguments) ==
    /\ \E o \in TestTriggerOutcomes(TriggerStore(trigger_schema, trigger_registry),
                                     arguments, is_local) :
         Returned("test_trigger", arguments, o)
    /\ UNCHANGED <<next_uuid, now, notTrigger>>

\* mcp_server.py:818-828  the branch_query tool.
CallBranchQuery(arguments) ==
    LET o == BranchQueryOutcome(BranchStore(main, branches, search_path),
                                arguments, is_local)
    IN  /\ ret' = [op |-> "branch_query", arguments |-> arguments, result |-> o.result]
        /\ BranchReturned(o)

\* mcp_server.py:830-855  the branch_merge tool.
CallBranchMerge(arguments) ==
    LET o == BranchMergeOutcome(BranchStore(main, branches, search_path),
                                arguments, is_local)
    IN  /\ ret' = [op |-> "branch_merge", arguments |-> arguments, result |-> o.result]
        /\ BranchReturned(o)

\* mcp_server.py:857-864  the branch_discard tool.
CallBranchDiscard(arguments) ==
    LET o == BranchDiscardOutcome(BranchStore(main, branches, search_path),
                                  arguments, is_local)
    IN  /\ ret' = [op |-> "branch_discard", arguments |-> arguments, result |-> o.result]
        /\ BranchReturned(o)

\* mcp_server.py:893-894  a tool name no branch of handle_tool_call matches.
CallUnknownTool(tool_name) ==
    /\ ret' = [op |-> tool_name, arguments |-> [a \in {} |-> 0],
               result |-> Err(UnknownToolText(tool_name))]
    /\ UNCHANGED <<next_uuid, now, triggerVars, notTrigger, bootVars>>

\* ------------------------------------------------------------------ stdio loop

\* mcp_server.py:914  line.strip().
Strip(line) == RStrip(LStrip(line), " ")

RECURSIVE StrOf(_)
\* The str whose pieces are `chars`, as one string.
StrOf(chars) == IF chars = <<>> THEN "" ELSE Head(chars) \o StrOf(Tail(chars))

\* dict.get(key, default) on a JSON object.
DictGet(value, key, default) ==
    IF \E i \in 1..Len(value.dict) : StrOf(value.dict[i][1]) = key
    THEN value.dict[CHOOSE i \in 1..Len(value.dict) : StrOf(value.dict[i][1]) = key][2]
    ELSE default

\* The arguments of a tool call as the handlers of the model read them: a
\* map from the keys to the str values.
ToolArguments(value) ==
    [k \in {StrOf(value.dict[i][1]) : i \in 1..Len(value.dict)} |->
        StrOf(DictGet(value, k, PyStr(<<>>)).str)]

\* mcp_server.py:466-897  handle_tool_call for the tools the lines of
\* StdinLines name: list_triggers, whose arguments.get raises inside the try
\* when arguments is not a dict, and names no branch matches.
HandleToolCall(store, tool_name, arguments, local) ==
    IF StrOf(tool_name.str) = "list_triggers"
    THEN IF IsA(arguments, "dict")
         THEN ListTriggersOutcomes(store, ToolArguments(arguments), local)
         ELSE {Outcome(Err(ErrorText("AttributeError")), store)}
    ELSE {Outcome(Err(UnknownToolText(StrOf(tool_name.str))), store)}

\* mcp_server.py:448-450  create_tools(), each tool by its name.
tools ==
    <<"query", "read_query", "list_schemas", "list_tables", "describe_table",
      "get_usage_stats", "store_memory", "search_memory", "get_agent_state",
      "set_agent_state", "delete_memory", "log_reasoning_step", "replay_decision",
      "get_session_history", "register_trigger", "list_triggers", "delete_trigger",
      "test_trigger", "branch_create", "branch_query", "branch_merge",
      "branch_discard", "branch_list">>

\* mcp_server.py:907-911
server_info ==
    [name |-> "hatidata", version |-> "0.2.0", capabilities |-> [tools |-> <<>>]]

\* mcp_server.py:927-935, 938-942, 949-953  a response with a result.
Response(req_id, result) == [jsonrpc |-> "2.0", id |-> req_id, result |-> result]

\* mcp_server.py:959-966  the response to a method the loop does not know.
MethodNotFound(req_id, method) ==
    [jsonrpc |-> "2.0", id |-> req_id,
     error |-> [code |-> -32601, message |-> <<"Method not found: ", method>>]]

\* mcp_server.py:913-921  the line the loop is at, stripped, and its parse.
Line == Strip(Head(stdin))

Request == JsonLoads(Line)

\* mcp_server.py:923-924  method and req_id of a request that is an object.
Method(request) == DictGet(request, "method", PyStr(<<>>))

ReqId(request) == DictGet(request, "id", PyNone)

IsMethod(request, name) ==
    IsA(Method(request), "str") /\ StrOf(Method(request).str) = name

KnownMethods == {"initialize", "tools/list", "tools/call", "notifications/initialized"}

\* mcp_server.py:913  the loop takes the next line of sys.stdin.
ReadLine ==
    /\ loop = "reading"
    /\ stdin # <<>>
    /\ stdin' = Tail(stdin)
    /\ read_lines' = Append(read_lines, Head(stdin))

\* The loop goes on to the next line without writing (continue).
Continue == UNCHANGED <<stdout, loop, ret, triggerVars, notStdio>>

\* mcp_server.py:968-969  the response is written and the loop goes on.
Write(response) ==
    /\ stdout' = Append(stdout, response)
    /\ UNCHANGED loop

\* An exception nothing catches leaves run_stdio_server: the loop is over
\* and the lines left on sys.stdin are never read.
Raise ==
    /\ loop' = "raised"
    /\ UNCHANGED <<stdout, ret, triggerVars, notStdio>>

\* mcp_server.py:914-916  a line that is blank after strip().
SkipBlankLine ==
    /\ ReadLine
    /\ Line = <<>>
    /\ Continue

\* mcp_server.py:918-921  json.loads raises JSONDecodeError.
SkipMalformedLine ==
    /\ ReadLine
    /\ Line # <<>>
    /\ ~Request.ok
    /\ Continue

\* mcp_server.py:923  request.get on a JSON value that is not an object
\* raises AttributeError outside any try.
ServeNonObject ==
    /\ ReadLine
    /\ Line # <<>>
    /\ Request.ok
    /\ ~IsA(Request.v, "dict")
    /\ Raise

\* A line that holds a JSON object.
ReadRequest ==
    /\ ReadLine
    /\ Line # <<>>
    /\ Request.ok
    /\ IsA(Request.v, "dict")

\* mcp_server.py:926-935
ServeInitialize ==
    /\ ReadRequest
    /\ IsMethod(Request.v, "initialize")
    /\ Write(Response(ReqId(Request.v),
                      [protocolVersion |-> "2024-11-05", serverInfo |-> server_info,
                       capabilities |-> server_info.capabilities]))
    /\ UNCHANGED <<ret, triggerVars, notStdio>>

\* mcp_server.py:937-942
ServeToolsList ==
    /\ ReadRequest
    /\ IsMethod(Request.v, "tools/list")
    /\ Write(Response(ReqId(Request.v), [tools |-> tools]))
    /\ UNCHANGED <<ret, triggerVars, notStdio>>

\* mcp_server.py:944-953  params is a dict: the tool is called and its
\* result written.
ServeToolsCall ==
    /\ ReadRequest
    /\ IsMethod(Request.v, "tools/call")
    /\ LET params == DictGet(Request.v, "params", PyDict(<<>>))
       IN  /\ IsA(params, "dict")
           /\ LET tool_name == DictGet(params, "name", PyStr(<<>>))
                  arguments == DictGet(params, "arguments", PyDict(<<>>))
              IN  \E o \in HandleToolCall(TriggerStore(trigger_schema, trigger_registry),
                                          tool_name, arguments, is_local) :
                     /\ Write(Response(ReqId(Request.v), o.result))
                     /\ ret' = [op |-> StrOf(tool_name.str), arguments |-> arguments,
                                result |-> o.result]
                     /\ TriggerStoreReturned(o)
    /\ UNCHANGED notServe

\* mcp_server.py:945-946  params.get on a params that is not a dict raises
\* AttributeError outside any try.
ServeToolsCallNonObjectParams ==
    /\ ReadRequest
    /\ IsMethod(Request.v, "tools/call")
    /\ ~IsA(DictGet(Request.v, "params", PyDict(<<>>)), "dict")
    /\ Raise

\* mcp_server.py:955-956
ServeNotificationsInitialized ==
    /\ ReadRequest
    /\ IsMethod(Request.v, "notifications/initialized")
    /\ Continue

\* mcp_server.py:958-966  any other method, a missing one ("") included.
ServeUnknownMethod ==
    /\ ReadRequest
    /\ \A m \in KnownMethods : ~IsMethod(Request.v, m)
    /\ Write(MethodNotFound(ReqId(Request.v), StrOf(Method(Request.v).str)))
    /\ UNCHANGED <<ret, triggerVars, notStdio>>

\* mcp_server.py:913  sys.stdin is at its end: the for loop is left and
\* run_stdio_server returns.
EndOfInput ==
    /\ loop = "reading"
    /\ stdin = <<>>
    /\ loop' = "ended"
    /\ UNCHANGED <<stdin, read_lines, stdout, ret, triggerVars, notStdio>>

\* ------------------------------------------------------------------ session listing

\* local_engine.py:387-389  the SELECT list and FROM of list_sessions, one
\* token, and the GROUP BY that follows the conditions.
SessionSelect ==
    "SELECT session_id, agent_id, MIN(created_at) AS started_at, MAX(created_at) AS last_step_at, COUNT(*) AS step_count FROM \"_hatidata_cot_local\".agent_traces"

GroupBySession == "GROUP BY session_id, agent_id"

DeleteTraces == "DELETE FROM \"_hatidata_cot_local\".agent_traces"

\* An agent_id that closes the quote list_sessions opens, ends the select,
\* adds a DELETE and comments the rest of the text out.
InjectedAgentId == <<"x", "'", GroupBySession, ";", DeleteTraces, ";", "--">>

\* The (agent_id, limit, since) list_sessions is called with: the defaults,
\* an agent, an agent with a limit and a lower bound, and the agent_id above.
ListSessionsInputs ==
    {<<None, 50, None>>,
     <<Some(<<"a", "1">>), 50, None>>,
     <<Some(<<"a", "2">>), 1, Some(<<"1970">>)>>,
     <<Some(InjectedAgentId), 50, None>>}

\* local_engine.py:379-392  the text list_sessions sends: the arguments are
\* put between quotes in the text as they are.
ListSessionsSql(agent_id, limit, since) ==
    LET conditions ==
            (IF agent_id # None /\ agent_id[1] # <<>>
             THEN << <<"agent_id =", "'">> \o agent_id[1] \o <<"'">> >> ELSE <<>>)
            \o (IF since # None /\ since[1] # <<>>
                THEN << <<"created_at >=", "'">> \o since[1] \o <<"'">> >> ELSE <<>>)
        where == IF conditions = <<>> THEN <<>> ELSE <<"WHERE">> \o JoinAnd(conditions)
    IN  <<SessionSelect>> \o where
            \o <<GroupBySession, "ORDER BY started_at DESC", "LIMIT", StrOf(IntText(limit))>>

RECURSIVE Lex(_, _, _)
\* The tokens the SQL parser sees: the text between two quotes is one
\* literal, and -- outside a literal ends the line.  `literal` is the
\* literal being read, or None; a literal left open is a parse error.
Lex(text, literal, tokens) ==
    IF text = <<>>
    THEN (IF literal = None THEN [ok |-> TRUE, tokens |-> tokens] ELSE [ok |-> FALSE])
    ELSE IF literal # None
    THEN (IF Head(text) = "'"
          THEN Lex(Tail(text), None, Append(tokens, literal[1] \o "'"))
          ELSE Lex(Tail(text), Some(literal[1] \o Head(text)), tokens))
    ELSE IF Head(text) = "'" THEN Lex(Tail(text), Some("'"), tokens)
    ELSE IF Head(text) = "--" THEN [ok |-> TRUE, tokens |-> tokens]
    ELSE Lex(Tail(text), None, Append(tokens, Head(text)))

\* The literal a text is written as.
Literal(chars) == "'" \o StrOf(chars) \o "'"

Literals == {Literal(t) : t \in AgentIds \cup {<<"x">>, <<"1970">>}}

\* The selects over agent_traces of the grammar: conditions on agent_id and
\* created_at, the GROUP BY, and the ORDER BY and LIMIT or neither.
SessionSelects ==
    LET wheres == {<<>>}
            \cup {<<"WHERE", "agent_id =", l>> : l \in Literals}
            \cup {<<"WHERE", "created_at >=", l>> : l \in Literals}
            \cup {<<"WHERE", "agent_id =", l[1], "AND", "created_at >=", l[2]>> :
                        l \in Literals \X Literals}
        tails == {<<>>} \cup {<<"ORDER BY started_at DESC", "LIMIT", StrOf(IntText(n))>> :
                                n \in {1, 50}}
    IN  {<<SessionSelect>> \o w \o <<GroupBySession>> \o t : w \in wheres, t \in tails}

\* GROUP BY session_id, agent_id with COUNT(*) over a set of rows.
SessionSummaries(rows) ==
    {[session_id |-> r.session_id, agent_id |-> r.agent_id,
      step_count |-> Cardinality({q \in rows : /\ q.session_id = r.session_id
                                              /\ q.agent_id = r.agent_id})] : r \in rows}

\* The results a select of the grammar can give.  created_at is not part of
\* the modelled rows: a condition on it keeps some of the rows, and LIMIT n
\* keeps n of the groups, whichever they are.
SelectSessions(rows, statement) ==
    LET of_agent == IF Len(statement) >= 4 /\ statement[3] = "agent_id ="
                    THEN {r \in rows : Literal(r.agent_id) = statement[4]}
                    ELSE rows
        kept == IF \E i \in 1..Len(statement) : statement[i] = "created_at >="
                THEN SUBSET of_agent ELSE {of_agent}
        limit == IF statement[Len(statement)] = "1" THEN 1 ELSE 50
    IN  UNION {{l \in SUBSET SessionSummaries(k) :
                    Cardinality(l) = IF Cardinality(SessionSummaries(k)) < limit
                                     THEN Cardinality(SessionSummaries(k)) ELSE limit} :
               k \in kept}

RECURSIVE RunOnTraces(_, _)
\* local_engine.py:165  conn.execute(sql) on the statements of a text: they
\* are run one after the other and the rows are those of the last one.  The
\* rows of the table afterwards, and the results the call can give.
RunOnTraces(rows, statements) ==
    LET statement == Head(statements)
        after == IF statement = <<DeleteTraces>> THEN {} ELSE rows
    IN  IF Len(statements) = 1
        THEN [rows |-> after,
              results |-> IF statement = <<DeleteTraces>>
                          THEN {{[Count |-> Cardinality(rows)]}}
                          ELSE SelectSessions(rows, statement)]
        ELSE RunOnTraces(after, Tail(statements))

\* local_engine.py:370-392  list_sessions.  A text with a statement outside
\* the grammar raises before anything is run.
ListSessions(agent_id, limit, since) ==
    /\ Ensure(COT_SCHEMA)
    /\ LET lexed == Lex(ListSessionsSql(agent_id, limit, since), None, <<>>)
           statements == IF lexed.ok THEN SplitStatements(lexed.tokens, <<>>) ELSE <<>>
       IN  IF /\ statements # <<>>
              /\ \A i \in 1..Len(statements) :
                    statements[i] \in SessionSelects \cup {<<DeleteTraces>>}
           THEN LET o == RunOnTraces(agent_traces, statements)
                IN  /\ agent_traces' = o.rows
                    /\ \E result \in o.results :
                          ret' = [op |-> "list_sessions", raised |-> FALSE,
                                  agent_id |-> agent_id, result |-> result]
           ELSE /\ agent_traces' = agent_traces
                /\ ret' = [op |-> "list_sessions", raised |-> TRUE, agent_id |-> agent_id]
    /\ UNCHANGED <<next_uuid, log_calls, tampered, threads, notCot>>

\* ------------------------------------------------------------------ control plane client

\* The api_key and org_id arguments of the constructor: '' is the default of
\* both.
ApiKeys == {<<>>, <<"hd_live_k">>}

OrgIds == {<<>>, <<"org-001">>}

\* control_plane.py:57-76  ControlPlaneClient.__init__: no token yet.
ControlPlaneClient(api_key, org_id) ==
    [api_key |-> api_key, org_id |-> org_id, token |-> None]

\* What the control plane answers to POST /v1/auth/login: 200 with a JWT and
\* the org (or no org), or an error status.
LoginResponses ==
    {[status |-> 200, token |-> t, org |-> o] :
        t \in {<<"jwt-1">>, <<"jwt-2">>}, o \in {None, Some(<<"org-9">>)}}
    \cup {[status |-> 401]}

\* The helpers that send a request: every one builds its headers with
\* self._headers() (control_plane.py:111-191), and the org-scoped ones build
\* their URL with self._url(path) before that.
RequestHelpers ==
    {"_get", "_post", "_put", "_delete", "_abs_get", "_abs_post", "_request_with_meta"}

OrgScoped == {"_get", "_post", "_put", "_delete", "_request_with_meta"}

\* control_plane.py:85-89  the POST login sends: no Authorization header.
LoginPost == [helper |-> "login", org_id |-> <<>>, authorization |-> None]

\* control_plane.py:80-97  login(): raise_for_status raises on an error
\* status and nothing is stored; otherwise the token is stored, and the org
\* id when the client has none and the response names an org.
LoginOutcome(c, response) ==
    IF response.status # 200
    THEN [raised |-> TRUE, client |-> c]
    ELSE [raised |-> FALSE,
          client |-> [c EXCEPT !.token = Some(response.token),
                               !.org_id = IF c.org_id = <<>> /\ response.org # None
                                          THEN response.org[1]
                                          ELSE c.org_id]]

\* A mutant of NoToken: the stored token is never looked at.
NoTokenEver(c) == TRUE

\* control_plane.py:103  not self._token: None or the empty text.
NoToken(c) == c.token = None \/ c.token[1] = <<>>

\* control_plane.py:99-105  _headers(): the requests sent while the header
\* is built (the login, if any), the client afterwards, and the header or
\* the exception of the login.
Headers(c, response) ==
    IF c.api_key # <<>>
    THEN [raised |-> FALSE, client |-> c, sent |-> <<>>,
          authorization |-> <<"ApiKey ">> \o c.api_key]
    ELSE IF NoToken(c)
    THEN LET o == LoginOutcome(c, response)
         IN  IF o.raised
             THEN [raised |-> TRUE, client |-> c, sent |-> <<LoginPost>>]
             ELSE [raised |-> FALSE, client |-> o.client, sent |-> <<LoginPost>>,
                   authorization |-> <<"Bearer ">> \o o.client.token[1]]
    ELSE [raised |-> FALSE, client |-> c, sent |-> <<>>,
          authorization |-> <<"Bearer ">> \o c.token[1]]

\* control_plane.py:57-76  a client is constructed.
Construct(api_key, org_id) ==
    /\ cp = None
    /\ cp' = Some(ControlPlaneClient(api_key, org_id))
    /\ ret' = [op |-> "ControlPlaneClient"]
    /\ UNCHANGED <<http, next_uuid, now, notControlPlane>>

\* control_plane.py:80-97  the caller calls login().
Login(response) ==
    /\ cp # None
    /\ Len(http) < MaxRequests
    /\ LET o == LoginOutcome(cp[1], response)
       IN  /\ cp' = Some(o.client)
           /\ ret' = [op |-> "login", raised |-> o.raised]
    /\ http' = Append(http, LoginPost)
    /\ UNCHANGED <<next_uuid, now, notControlPlane>>

\* control_plane.py:111-191  one of the request helpers is called: the URL
\* is built, then the headers, and the request is sent unless the login
\* inside _headers raised.  `response` is the answer a login would get.
SendRequest(helper, response) ==
    /\ cp # None
    /\ LET url_org == IF helper \in OrgScoped THEN cp[1].org_id ELSE <<>>
           h == Headers(cp[1], response)
           request == [helper |-> helper, org_id |-> url_org,
                       authorization |-> Some(h.authorization)]
           sent == IF h.raised THEN h.sent ELSE Append(h.sent, request)
       IN  /\ Len(http) + Len(sent) <= MaxRequests
           /\ http' = http \o sent
           /\ cp' = Some(h.client)
           /\ ret' = [op |-> "request", helper |-> helper, raised |-> h.raised]
    /\ UNCHANGED <<next_uuid, now, notControlPlane>>

\* ------------------------------------------------------------------ CoT hash chain helpers

RECURSIVE PyRepr(_)
\* str(value) of a Python value: None, True and False by name, an int in
\* decimal, a str between single quotes (the texts used hold no quote and no
\* backslash, so nothing is escaped), a list and a dict with ", " between
\* the items and ": " after each key.
PyRepr(value) ==
    CASE IsA(value, "null") -> <<"None">>
      [] IsA(value, "bool") -> IF value.bool THEN <<"True">> ELSE <<"False">>
      [] IsA(value, "int") -> IntText(value.int)
      [] IsA(value, "str") -> <<"'">> \o value.str \o <<"'">>
      [] IsA(value, "list") ->
            <<"[">> \o JoinTexts([i \in 1..Len(value.list) |-> PyRepr(value.list[i])])
                    \o <<"]">>
      [] IsA(value, "dict") ->
            <<"{">> \o JoinTexts([i \in 1..Len(value.dict) |->
                                    <<"'">> \o value.dict[i][1] \o <<"'", ":", " ">>
                                        \o PyRepr(value.dict[i][2])])
                    \o <<"}">>

\* datetime.now(timezone.utc).isoformat() at a whole second of the first
\* minute of the clock.
IsoFormat(seconds) == <<"1970-01-01T00:00:0">> \o IntText(seconds) \o <<"+00:00">>

\* A mutant of BuildCotTrace: the hash input leaves prev_hash out.
BuildCotTraceUnchained(trace_id, timestamp, session_id, agent_id, org_id, step_index, step_type, content, prev_hash) ==
    [trace_id |-> trace_id,
     session_id |-> session_id,
     agent_id |-> agent_id,
     org_id |-> org_id,
     step_index |-> step_index,
     trace_type |-> step_type,
     content |-> content,
     content_hash |-> SHA256(step_type \o PyRepr(content) \o timestamp),
     timestamp |-> timestamp]

\* control_plane.py:372-398  build_cot_trace; trace_id is the uuid4() it
\* draws and timestamp the isoformat() of the clock it reads.
BuildCotTrace(trace_id, timestamp, session_id, agent_id, org_id, step_index, step_type, content, prev_hash) ==
    [trace_id |-> trace_id,
     session_id |-> session_id,
     agent_id |-> agent_id,
     org_id |-> org_id,
     step_index |-> step_index,
     trace_type |-> step_type,
     content |-> content,
     content_hash |-> SHA256(prev_hash \o step_type \o PyRepr(content) \o timestamp),
     timestamp |-> timestamp]

RECURSIVE BuildTraces(_, _, _, _, _, _)
\* control_plane.py:417-429  the loop of build_cot_session over the steps
\* left, `traces` being the list built so far: uuid4() draws session_id + 1,
\* session_id + 2, ... and the clock reads times[1], times[2], ...  A step
\* without "type" or "content" raises KeyError.
BuildTraces(session_id, agent_id, org_id, steps, times, traces) ==
    LET i == Len(traces) + 1
        prev_hash == IF traces = <<>> THEN <<>> ELSE traces[Len(traces)].content_hash
    IN  IF i > Len(steps)
        THEN [raised |-> FALSE, traces |-> traces]
        ELSE IF {"type", "content"} \subseteq DOMAIN steps[i]
        THEN BuildTraces(session_id, agent_id, org_id, steps, times,
                         Append(traces,
                                BuildCotTrace(session_id + i, IsoFormat(times[i]),
                                              session_id, agent_id, org_id, i - 1,
                                              steps[i].type, steps[i].content,
                                              prev_hash)))
        ELSE [raised |-> TRUE, traces |-> traces]

\* The steps passed: dicts with a type and a content, and one without type.
StepDicts ==
    {[type |-> <<"Thought">>, content |-> PyDict(<<>>)],
     [type |-> <<"Thought">>, content |-> PyDict(<< <<<<"text">>, PyStr(<<"hi">>)>> >>)],
     [type |-> <<"ToolCall">>, content |-> PyDict(<< <<<<"text">>, PyStr(<<"hi">>)>> >>)],
     [content |-> PyDict(<<>>)]}

StepLists == UNION {[1..n -> StepDicts] : n \in 0..MaxSteps}

\* The readings of a clock that does not run backwards, from `from` on.
ClockTimes(n, from) ==
    {f \in [1..n -> from..MaxClock] : \A i \in 1..n : \A j \in i..n : f[i] <= f[j]}

\* control_plane.py:400-430  build_cot_session(agent_id, org_id, steps).
BuildCotSession(agent_id, org_id, steps, times) ==
    /\ next_uuid + 1 + Len(steps) <= 2 * (MaxSteps + 1)
    /\ LET session_id == next_uuid
           o == BuildTraces(session_id, agent_id, org_id, steps, times, <<>>)
           built == Len(o.traces)
       IN  /\ next_uuid' = next_uuid + 1 + built
           /\ now' = IF built = 0 THEN now ELSE times[built]
           /\ ret' = IF o.raised
                      THEN [op |-> "build_cot_session", steps |-> steps, raised |-> TRUE]
                      ELSE [op |-> "build_cot_session", steps |-> steps, raised |-> FALSE,
                            session_id |-> session_id, traces |-> o.traces]
    /\ UNCHANGED <<cpVars, notControlPlane>>

\* ------------------------------------------------------------------ CoT over SQL

\* f"'{value}'": a value put between quotes into the text of a statement.
Quoted(value) == <<"'">> \o value \o <<"'">>

\* What the SQL parser reads where a quoted value stands: the value of the
\* one literal the text lexes to ('' inside it being one quote), or None
\* when the text is not one whole literal and the statement raises.
QuotedValue(value) ==
    LET lexed == SqlLex(Quoted(value), None, <<>>)
    IN  IF lexed.ok /\ Len(lexed.tokens) = 1 /\ IsA(lexed.tokens[1], "lit")
        THEN Some(lexed.tokens[1].lit)
        ELSE None

RECURSIVE EscapeQuotes(_)
\* mcp_server.py:632  content.replace(chr(39), chr(39)+chr(39)).
EscapeQuotes(text) ==
    IF text = <<>> THEN <<>>
    ELSE (IF Head(text) = "'" THEN <<"'", "'">> ELSE <<Head(text)>>)
             \o EscapeQuotes(Tail(text))

\* The session ids the SQL-only path is called with: those of SessionIds,
\* one that ends in two quotes and one that ends in one.
WideSessionIds == SessionIds \cup {<<"s", "'", "'">>, <<"s", "'">>}

\* mcp_server.py:621-635  the row the SQL-only path inserts, given the
\* result `rows` of its predecessor query: the hash is computed from the
\* arguments, and the columns hold what the parser reads in the statement's
\* text, where session_id, agent_id and step_type stand as given and the
\* content with its quotes doubled.
SqlNewTrace(trace_id, agent_id, session_id, step_type, content, rows) ==
    LET prev_hash == IF rows # <<>> THEN rows[1].hash ELSE <<>>
        step_number == IF rows # <<>> THEN rows[1].step_number + 1 ELSE 0
    IN  [trace_id |-> trace_id,
         session_id |-> QuotedValue(session_id)[1],
         agent_id |-> QuotedValue(agent_id)[1],
         step_number |-> step_number,
         step_type |-> QuotedValue(step_type)[1],
         content |-> QuotedValue(EscapeQuotes(content))[1],
         prev_hash |-> prev_hash,
         hash |-> SHA256(ChainInput(prev_hash, session_id, step_type, content))]

\* mcp_server.py:595-637  log_reasoning_step on the SQL-only path: the
\* schema and table are created where missing, the predecessor is read by a
\* statement that holds the session id between quotes, and the row is
\* inserted by a statement built the same way.  A statement the parser
\* rejects raises, and the call is answered with _err.
SqlLogReasoningStep(agent_id, session_id, step_type, content) ==
    /\ Cardinality(agent_traces) < MaxTraces
    /\ catalog' = catalog \cup SchemaObjects(COT_SCHEMA)
    /\ IF \E v \in {session_id, agent_id, step_type, EscapeQuotes(content)} :
              QuotedValue(v) = None
       THEN /\ ret' = [op |-> "log_reasoning_step", path |-> "sql",
                       session_id |-> session_id,
                       result |-> Err(ErrorText("ParserException"))]
            /\ UNCHANGED <<agent_traces, log_calls, next_uuid>>
       ELSE /\ \E rows \in PredecessorQuery(agent_traces, QuotedValue(session_id)[1]) :
                 agent_traces' = agent_traces \cup
                     {SqlNewTrace(next_uuid, agent_id, session_id, step_type, content, rows)}
            /\ log_calls' = [s \in DOMAIN log_calls |->
                                IF s = session_id THEN Append(log_calls[s], next_uuid)
                                ELSE log_calls[s]]
            /\ next_uuid' = next_uuid + 1
            /\ ret' = [op |-> "log_reasoning_step", path |-> "sql",
                       session_id |-> session_id,
                       result |-> Ok([trace_id |-> next_uuid, session_id |-> session_id])]
    /\ UNCHANGED <<initialized_schemas, tampered, threads, notCot>>

\* mcp_server.py:645-671  replay_decision on the SQL-only path: the rows are
\* read by a statement that holds the session id between quotes and the
\* chain is verified by the loop of replay_session.
SqlReplayDecision(session_id, verify_chain) ==
    /\ IF QuotedValue(session_id) = None
       THEN ret' = [op |-> "replay_decision", path |-> "sql", session_id |-> session_id,
                    result |-> Err(ErrorText("ParserException"))]
       ELSE \E rows \in OrderByStepNumber(SessionRows(agent_traces,
                                                      QuotedValue(session_id)[1])) :
              ret' = [op |-> "replay_decision", path |-> "sql",
                      session_id |-> session_id,
                      result |-> Ok([session_id |-> session_id,
                                     steps |-> rows,
                                     step_count |-> Len(rows),
                                     verify_chain |-> verify_chain,
                                     chain_valid |-> ChainValid(rows, verify_chain)])]
    /\ UNCHANGED <<agent_traces, next_uuid, log_calls, tampered, threads, notCot, bootVars>>

\* ------------------------------------------------------------------ DDL through the query tool

\* The DDL statements the query tool is called with: DROP SCHEMA "<schema>"
\* CASCADE and DROP TABLE "<schema>".<table>, for the internal schemas.
DropStatements ==
    [kind : {"drop_schema"}, schema : InternalSchemas]
      \cup UNION {{[kind |-> "drop_table", schema |-> s, table |-> TablesOf(s)[k]] :
                      k \in 1..Len(TablesOf(s))} : s \in InternalSchemas}

\* The catalog entries a DROP statement removes.
Dropped(stmt) ==
    IF stmt.kind = "drop_schema" THEN SchemaObjects(stmt.schema)
    ELSE {<<stmt.schema, stmt.table>>}

\* mcp_server.py:476-478  the query tool running a DROP statement through
\* local_engine.py:152-170: conn.execute runs whatever text it is given.  The
\* objects leave the catalog with their rows; _initialized_schemas is not
\* touched.  Dropping what is not there raises and is answered with _err.
QueryDrop(stmt) ==
    LET names == {o[2] : o \in {d \in Dropped(stmt) : Len(d) = 2}}
        After(n) == IF n \in names THEN {} ELSE TableRows(n)
        there == IF stmt.kind = "drop_schema" THEN <<stmt.schema>> \in catalog
                 ELSE <<stmt.schema, stmt.table>> \in catalog
    IN  /\ \A t \in Threads : threads[t].pc = "idle"
        /\ IF there
           THEN /\ catalog' = catalog \ Dropped(stmt)
                /\ agent_memories' = After("agent_memories")
                /\ agent_state' = After("agent_state")
                /\ agent_traces' = After("agent_traces")
                /\ trigger_registry' = After("trigger_registry")
                /\ trigger_schema' = (trigger_schema /\ "trigger_registry" \notin names)
                /\ ret' = [op |-> "query", stmt |-> stmt, result |-> Ok([rows |-> {}])]
           ELSE /\ ret' = [op |-> "query", stmt |-> stmt,
                           result |-> Err(ErrorText("CatalogException"))]
                /\ UNCHANGED <<catalog, notTables>>
        /\ UNCHANGED <<initialized_schemas, threads, notBoot>>

\* local_engine.py:294-313  log_reasoning_step on a store whose catalog may
\* have been changed through the query tool: ensure_cot_schema returns at
\* its guard when the schema is in _initialized_schemas, and the predecessor
\* query raises when agent_traces is not in the catalog; handle_tool_call
\* answers with _err (mcp_server.py:896-897).
LogReasoningStepOnCatalog(agent_id, session_id, step_type, content) ==
    IF COT_SCHEMA \in initialized_schemas /\ <<COT_SCHEMA, "agent_traces">> \notin catalog
    THEN /\ ret' = [op |-> "log_reasoning_step", raised |-> "CatalogException"]
         /\ UNCHANGED <<agent_traces, next_uuid, log_calls, tampered, threads, notCot,
                         bootVars>>
    ELSE LogReasoningStep(agent_id, session_id, step_type, content)

\* local_engine.py:332-344  replay_session on such a store, the same way.
ReplaySessionOnCatalog(session_id, verify_chain) ==
    IF COT_SCHEMA \in initialized_schemas /\ <<COT_SCHEMA, "agent_traces">> \notin catalog
    THEN /\ ret' = [op |-> "replay_session", raised |-> "CatalogException"]
         /\ UNCHANGED <<agent_traces, next_uuid, log_calls, tampered, threads, notCot,
                         bootVars>>
    ELSE ReplaySession(session_id, verify_chain)

\* ------------------------------------------------------------------ specifications

\* local_engine.py:42-53  a store just opened whose schema main holds
\* `tables`: the internal schemas are empty or missing and there is no branch.
InitOn(tables) ==
    /\ agent_traces = {}
    /\ next_uuid = 0
    /\ ret = [op |-> "none"]
    /\ log_calls = [s \in SessionIds |-> <<>>]
    /\ tampered = None
    /\ threads = [t \in Threads |-> [pc |-> "idle"]]
    /\ agent_state = {}
    /\ set_calls = [p \in AgentIds \X StateKeys |-> 0]
    /\ last_set = [p \in AgentIds \X StateKeys |-> None]
    /\ agent_memories = {}
    /\ now = 0
    /\ main = tables
    /\ branches = [b \in {} |-> {}]
    /\ gone = {}
    /\ search_path = <<MainSchema>>
    /\ trigger_schema = FALSE
    /\ trigger_registry = {}
    /\ catalog = {}
    /\ initialized_schemas = {}
    /\ stdout = <<>>
    /\ loop = "reading"
    /\ read_lines = <<>>
    /\ cp = None
    /\ http = <<>>

\* An engine constructed on a new file.
Init == InitOn(InitialMains[1]) /\ is_local = TRUE /\ stdin = <<>>

\* Sequential callers: the stdio loop of mcp_server.py:913-969 handles one
\* request at a time.
NextCot ==
    \/ \E a \in AgentIds, s \in SessionIds, i \in StepInputs :
         LogReasoningStep(a, s, i[1], i[2])
    \/ \E s \in SessionIds, v \in BOOLEAN : ReplaySession(s, v)

SpecCot == Init /\ [][NextCot]_vars

\* Sequential callers and one edit of a content field in storage.
NextTamper ==
    \/ \E a \in AgentIds, s \in SessionIds, i \in StepInputs :
         LogReasoningStep(a, s, i[1], i[2])
    \/ \E s \in SessionIds, v \in BOOLEAN : ReplaySession(s, v)
    \/ \E id \in 0..(MaxTraces - 1), c \in TraceContents : TamperContent(id, c)

SpecTamper == Init /\ [][NextTamper]_vars

\* Sequential callers, the trace ids drawn staying under MaxTraces, and one
\* edit or removal of a row in storage.
NextEdit ==
    \/ \E s \in SessionIds, i \in StepInputs :
         next_uuid < MaxTraces /\ LogReasoningStep(<<"a", "1">>, s, i[1], i[2])
    \/ \E s \in SessionIds : ReplaySession(s, TRUE)
    \/ \E id \in 0..(MaxTraces - 1), c \in EditedColumns :
         \E v \in EditValues(c, agent_traces) : TamperColumn(id, c, v)
    \/ \E id \in 0..(MaxTraces - 1) : TamperRemove(id)

SpecEdit == Init /\ [][NextEdit]_vars

\* Sequential callers appending to one store through the engine and through
\* the SQL-only path, in any alternation, and replaying through either.
NextCotSql ==
    \/ \E s \in SessionIds, i \in StepInputs :
         LogReasoningStep(<<"a", "1">>, s, i[1], i[2])
    \/ \E s \in WideSessionIds, i \in StepInputs :
         SqlLogReasoningStep(<<"a", "1">>, s, i[1], i[2])
    \/ \E s \in SessionIds : ReplaySession(s, TRUE)
    \/ \E s \in WideSessionIds : SqlReplayDecision(s, TRUE)

SpecCotSql == Init /\ [][NextCotSql]_vars

\* Two threads of one process calling log_reasoning_step on one engine.
NextConc ==
    \/ \E t \in Threads, a \in AgentIds, s \in SessionIds, i \in StepInputs :
         LogRead(t, a, s, i[1], i[2])
    \/ \E t \in Threads : LogInsert(t)

SpecConc == Init /\ [][NextConc]_vars

\* Sequential callers of the agent-state operations.
NextState ==
    \/ \E a \in AgentIds, k \in StateKeys, v \in StateValues : SetState(a, k, v)
    \/ \E a \in AgentIds, k \in StateKeys : GetState(a, k)

SpecState == Init /\ [][NextState]_vars

\* Sequential callers of the memory operations.
NextMemory ==
    \/ \E i \in StoreInputs : StoreMemory(i[1], i[2], i[3], i[4])
    \/ \E i \in SearchInputs : SearchMemory(i[1], i[2], i[3], i[4], i[5])
    \/ \E id \in 0..MaxMemories : DeleteMemory(id)

SpecMemory == Init /\ [][NextMemory]_vars

\* An engine opened on a file that may hold user tables.
InitBranch ==
    /\ \E i \in 1..Len(InitialMains) : InitOn(InitialMains[i])
    /\ is_local = TRUE
    /\ stdin = <<>>

\* Sequential callers of the branch tools and of the query tool.
NextBranch ==
    \/ BranchCreate
    \/ \E id \in 0..(MaxBranches - 1), stmt \in BranchStatements : BranchQuery(id, stmt)
    \/ \E id \in 0..(MaxBranches - 1), st \in BranchStrategies : BranchMerge(id, st)
    \/ \E id \in 0..(MaxBranches - 1) : BranchDiscard(id)
    \/ \E n \in TableNames : QueryInsert(n)

SpecBranch == InitBranch /\ [][NextBranch]_vars

\* The branch tools and the SQL tools query and read_query, one call at a
\* time, on a file that may hold user tables.
NextSql ==
    \/ NextBranch
    \/ \E a \in ReadQueryArguments : CallReadQuery(a)

SpecSql == InitBranch /\ [][NextSql]_vars

\* A server started in local mode (--local) or against a remote store that
\* is new (mcp_server.py:998-1022).
InitDispatch == InitOn(InitialMains[1]) /\ is_local \in BOOLEAN /\ stdin = <<>>

\* The tools/call requests for the trigger tools, one at a time.
NextTrigger ==
    \/ \E a \in RegisterArguments : CallRegisterTrigger(a)
    \/ \E a \in ListArguments : CallListTriggers(a)
    \/ \E a \in DeleteArguments : CallDeleteTrigger(a)
    \/ \E a \in TestArguments : CallTestTrigger(a)

SpecTrigger == InitDispatch /\ [][NextTrigger]_vars

\* The tools/call requests of the stdio loop, one at a time: the trigger
\* tools, the branch tools naming a branch that is not there, and a tool
\* that is not in the catalog.
NextDispatch ==
    \/ \E a \in RegisterArguments : CallRegisterTrigger(a)
    \/ \E a \in ListArguments : CallListTriggers(a)
    \/ \E a \in DeleteArguments : CallDeleteTrigger(a)
    \/ \E a \in TestArguments : CallTestTrigger(a)
    \/ \E a \in BranchQueryArguments : CallBranchQuery(a)
    \/ \E a \in BranchMergeArguments : CallBranchMerge(a)
    \/ \E a \in BranchDiscardArguments : CallBranchDiscard(a)
    \/ \E n \in UnknownTools : CallUnknownTool(n)

SpecDispatch == InitDispatch /\ [][NextDispatch]_vars

\* A server started on a new store, in either mode, with the lines a client
\* has written on its standard input.
InitStdio ==
    /\ InitOn(InitialMains[1])
    /\ is_local \in BOOLEAN
    /\ stdin \in UNION {[1..n -> StdinLines] : n \in 0..MaxLines}

\* mcp_server.py:913-969  one iteration of the stdio loop.
NextStdio ==
    \/ SkipBlankLine
    \/ SkipMalformedLine
    \/ ServeNonObject
    \/ ServeInitialize
    \/ ServeToolsList
    \/ ServeToolsCall
    \/ ServeToolsCallNonObjectParams
    \/ ServeNotificationsInitialized
    \/ ServeUnknownMethod
    \/ EndOfInput

SpecStdio == InitStdio /\ [][NextStdio]_vars

\* Threads of one process calling the schema bootstraps, callers of
\* store_memory and log_reasoning_step that put rows in the tables, and the
\* process being replaced by a new one on the same file.
NextBootstrap ==
    \/ \E t \in Threads, s \in InternalSchemas : EnsureCall(t, s)
    \/ \E t \in Threads : EnsureCreateSchema(t)
    \/ \E t \in Threads : EnsureCreateTable(t)
    \/ \E t \in Threads : EnsureAdd(t)
    \/ NewProcess
    \/ StoreMemory(<<"a", "1">>, <<"a", "a", "b">>, "fact", 5)
    \/ LogReasoningStep(<<"a", "1">>, <<"s">>, <<"x">>, <<"h", "i">>)

SpecBootstrap == Init /\ [][NextBootstrap]_vars

\* Sequential callers of the CoT tools and of the query tool running DROP
\* statements on the internal schemas, and the process being replaced; the
\* trace ids drawn stay under MaxTraces.
NextCatalog ==
    \/ \E s \in SessionIds, i \in StepInputs :
         next_uuid < MaxTraces /\ LogReasoningStepOnCatalog(<<"a", "1">>, s, i[1], i[2])
    \/ \E s \in SessionIds, v \in BOOLEAN : ReplaySessionOnCatalog(s, v)
    \/ \E stmt \in DropStatements : QueryDrop(stmt)
    \/ NewProcess

SpecCatalog == Init /\ [][NextCatalog]_vars

\* One control plane client: constructed with or without an api key, then
\* logged in by its caller and sending requests through the helpers.
NextControlPlane ==
    \/ \E k \in ApiKeys, o \in OrgIds : Construct(k, o)
    \/ \E r \in LoginResponses : Login(r)
    \/ \E h \in RequestHelpers, r \in LoginResponses : SendRequest(h, r)

SpecControlPlane == Init /\ [][NextControlPlane]_vars

\* Sequential callers of the three ledger operations; the trace ids drawn
\* stay under MaxTraces.
NextLedger ==
    \/ \E a \in AgentIds, s \in SessionIds :
         next_uuid < MaxTraces /\ LogReasoningStep(a, s, <<"x">>, <<"h", "i">>)
    \/ \E s \in SessionIds, v \in BOOLEAN : ReplaySession(s, v)
    \/ \E i \in ListSessionsInputs : ListSessions(i[1], i[2], i[3])

SpecLedger == Init /\ [][NextLedger]_vars

\* The trigger tools called to register triggers, concepts that repeat a
\* token included, and to test contents against them.
NextScore ==
    \/ \E a \in WideRegisterArguments : CallRegisterTrigger(a)
    \/ \E a \in TestArguments : CallTestTrigger(a)

SpecScore == InitDispatch /\ [][NextScore]_vars

\* Callers of store_memory, and of search_memory with any text as the query.
NextSearch ==
    \/ \E i \in StoreInputs : StoreMemory(i[1], i[2], i[3], i[4])
    \/ \E i \in WideSearchInputs : SearchMemory(i[1], i[2], i[3], i[4], i[5])

SpecSearch == Init /\ [][NextSearch]_vars

\* Callers of the static helper build_cot_session.
NextCotSession ==
    \E steps \in StepLists : \E times \in ClockTimes(Len(steps), now) :
        BuildCotSession(<<"a", "1">>, <<"org-001">>, steps, times)

SpecCotSession == Init /\ [][NextCotSession]_vars

\* store_memory called on the engine and through the tool of a server
\* started with --agent-id a1, in either mode.
NextStore ==
    \/ \E i \in WideStoreInputs : StoreMemory(i[1], i[2], i[3], i[4])
    \/ \E a \in StoreMemoryArguments : CallStoreMemory(<<"a", "1">>, a)
    \/ \E id \in 0..MaxMemories : DeleteMemory(id)

SpecStore == InitDispatch /\ [][NextStore]_vars

\* ------------------------------------------------------------------ claims

TraceById(id) == CHOOSE r \in agent_traces : r.trace_id = id

\* C1: after any sequence of sequential log_reasoning_step calls, for every
\* session the k-th call for that session has step_number k-1 (so the step
\* numbers are 0..N-1 with no gap or duplicate), trace 0 has prev_hash "",
\* every later trace's prev_hash is the preceding trace's hash, and every
\* trace's hash is SHA256(prev_hash || session_id || step_type || content).
C1_DenseStepsAndHashLaw ==
    \A s \in SessionIds :
        LET calls == log_calls[s]
            mine == SessionRows(agent_traces, s)
        IN  /\ Cardinality(mine) = Len(calls)
            /\ {r.trace_id : r \in mine} = {calls[k] : k \in 1..Len(calls)}
            /\ \A k \in 1..Len(calls) :
                 LET r == TraceById(calls[k])
                 IN  /\ r.step_number = k - 1
                     /\ r.prev_hash = (IF k = 1 THEN <<>> ELSE TraceById(calls[k - 1]).hash)
                     /\ r.hash = SHA256(r.prev_hash \o s \o r.step_type \o r.content)

\* Two calls for one session with a call for the other session in between.
C1_Witness ==
    \E s, o \in SessionIds :
        /\ s # o
        /\ Len(log_calls[s]) = 2
        /\ Len(log_calls[o]) = 1
        /\ log_calls[s][1] < log_calls[o][1]
        /\ log_calls[o][1] < log_calls[s][2]

\* C2: replay_session(session_id, verify_chain = true) returns chain_valid =
\* true for every session whose traces (one or more) were all produced by
\* log_reasoning_step, whatever other sessions were written in between.
C2_ReplayOfLoggedSessionIsValid ==
    (ret.op = "replay_session" /\ ret.verify_chain /\ ret.step_count > 0)
        => ret.chain_valid = Some(TRUE)

\* A verified replay of a two-step session written around another session's step.
C2_Witness ==
    /\ C1_Witness
    /\ ret.op = "replay_session"
    /\ ret.verify_chain
    /\ ret.step_count = 2
    /\ ret.chain_valid = Some(TRUE)

\* C3: if the content of any one trace of a session (first, middle or last)
\* is changed to a different value directly in storage, a later
\* replay_session(session_id, verify_chain = true) returns chain_valid = false.
C3_ContentTamperDetected ==
    (/\ tampered # None
     /\ ret.op = "replay_session"
     /\ ret.verify_chain
     /\ ret.session_id = tampered[1].session_id)
        => ret.chain_valid = Some(FALSE)

\* The middle trace of a three-step session was edited and the replay says so.
C3_Witness ==
    /\ tampered # None
    /\ ret.op = "replay_session"
    /\ ret.verify_chain
    /\ ret.session_id = tampered[1].session_id
    /\ ret.step_count = 3
    /\ ret.steps[2].trace_id = tampered[1].trace_id
    /\ ret.chain_valid = Some(FALSE)

\* C4: when two log_reasoning_step calls on one session run concurrently in
\* one process, the predecessor read and the insert of one call are not
\* interleaved with those of the other: the two never hold the same
\* predecessor, so the session's step numbers stay dense and duplicate-free
\* and its traces form one linear hash chain (stated on the stored rows).
C4_ConcurrentAppendsSerialized ==
    \A s \in SessionIds :
        LET mine == SessionRows(agent_traces, s)
        IN  /\ \A r, q \in mine : r.step_number = q.step_number => r = q
            /\ {r.step_number : r \in mine} = 0..(Cardinality(mine) - 1)
            /\ \A r \in mine :
                 r.step_number > 0 =>
                    \E q \in mine : /\ q.step_number = r.step_number - 1
                                    /\ r.prev_hash = q.hash

\* C5: agent_state holds at most one row per (agent_id, key); the first
\* set_state for a pair stores version 1 and every later one raises the
\* stored version by exactly 1, so the version equals the number of
\* set_state calls made for the pair (and so never decreases).
C5_OneRowPerKeyVersionCountsSets ==
    /\ \A r, q \in agent_state : (r.agent_id = q.agent_id /\ r.key = q.key) => r = q
    /\ \A a \in AgentIds, k \in StateKeys :
         IF set_calls[a, k] = 0
         THEN StateRows(agent_state, a, k) = {}
         ELSE \E r \in StateRows(agent_state, a, k) : r.version = set_calls[a, k]

\* One key set twice for one agent and once for the other.
C5_Witness ==
    \E a, b \in AgentIds, k \in StateKeys :
        /\ a # b
        /\ set_calls[a, k] = 2
        /\ set_calls[b, k] = 1
        /\ \E r \in StateRows(agent_state, a, k) : r.version = 2

\* C6: get_state(agent, key) returns a value equal to the value of the latest
\* set_state on that pair, and None for a pair that was never set.
C6_GetReturnsLatestSet ==
    ret.op = "get_state" =>
        ret.value = (IF last_set[ret.agent_id, ret.key] = None
                     THEN PyNone
                     ELSE last_set[ret.agent_id, ret.key][1])

\* A pair set twice, last to the string "null", read back as that string.
C6_Witness ==
    /\ ret.op = "get_state"
    /\ set_calls[ret.agent_id, ret.key] = 2
    /\ ret.value = PyStr(<<"n", "u", "l", "l">>)

ReturnedIds == {ret.rows[i].memory_id : i \in 1..Len(ret.rows)}

C8_BranchWinsMerge ==
    [][(/\ ret'.op = "branch_merge"
        /\ ret'.strategy = "branch_wins"
        /\ ret'.branch_id \in DOMAIN branches)
          => LET schema == branches[ret'.branch_id]
             IN  /\ \A n \in Materialized(schema) :
                      n \in DOMAIN main' /\ main'[n] = schema[n].rows
                 /\ \A n \in DOMAIN main \ Materialized(schema) :
                      n \in DOMAIN main' /\ main'[n] = main[n]
                 /\ ret'.branch_id \notin DOMAIN branches'
                 /\ Payload(ret'.result).merged = Cardinality(Materialized(schema))]_vars

\* A merge of two materialized tables: t copied from main and extended, u
\* created in the branch only.
C8_Witness ==
    /\ ret.op = "branch_merge"
    /\ ret.strategy = "branch_wins"
    /\ ~IsError(ret.result)
    /\ Payload(ret.result).merged = 2
    /\ DOMAIN main = {"t", "u"}
    /\ main["t"] = {1, 3}
    /\ main["u"] = {3}
    /\ ret.branch_id \notin DOMAIN branches

\* C9: right after branch_create returns branch B, for every base table T
\* main had at creation time, branch_query(B, SELECT * FROM T) returns the
\* rows of main.T, and the returned table_count is the number of those tables.
C9_FreshBranchReadsMain ==
    [][/\ (ret'.op = "branch_create" /\ next_uuid' # next_uuid)
            => Payload(ret'.result).table_count = Cardinality(DOMAIN main)
       /\ (/\ ret.op = "branch_create"
           /\ ret'.op = "branch_query"
           /\ ret'.branch_id = Payload(ret.result).branch_id
           /\ ret'.stmt.kind = "select"
           /\ ret'.stmt.table \in DOMAIN main)
            => /\ ~IsError(ret'.result)
               /\ Payload(ret'.result) = [rows |-> main[ret'.stmt.table]]]_vars

\* A select through a branch that holds a view of each of main's two tables
\* and nothing else returns the row of main.u (u came to main by an earlier
\* merge; t got a row through the query tool).
C9_Witness ==
    /\ ret.op = "branch_query"
    /\ ret.stmt = [kind |-> "select", table |-> "u"]
    /\ ret.branch_id \in DOMAIN branches
    /\ DOMAIN branches[ret.branch_id] = {"t", "u"}
    /\ Materialized(branches[ret.branch_id]) = {}
    /\ DOMAIN main = {"t", "u"}
    /\ main["t"] = {1, 3}
    /\ ret.result = Ok([rows |-> {3}])

\* C10: branch_discard(id) returns true exactly when schema branch_<id>
\* existed; once the branch is gone (discarded or merged), every branch_query
\* and every branch_merge naming that id is reported to the caller as an
\* error, a result with isError = true.
C10_GoneBranchIsAnError ==
    [][/\ (ret'.op = "branch_discard" /\ ret' # ret)
            => (Payload(ret'.result).discarded <=> ret'.branch_id \in DOMAIN branches)
       /\ (ret'.op \in {"branch_query", "branch_merge"} /\ ret'.branch_id \in gone)
            => IsError(ret'.result)]_vars

\* C11: a write (insert, update, delete) made through branch_query on a
\* table the branch holds as its own materialized copy changes that copy
\* only: main keeps every row, and every other branch keeps its objects and
\* reads the same rows of that table as before.  Main's rows change only by
\* a merge or by a write on main itself.
C11_BranchWritesStayInBranch ==
    [][(/\ ret'.op = "branch_query"
        /\ ret'.stmt.kind \in WriteKinds
        /\ ret'.branch_id \in DOMAIN branches
        /\ ret'.stmt.table \in Materialized(branches[ret'.branch_id]))
          => /\ ~IsError(ret'.result)
             /\ main' = main
             /\ DOMAIN branches' = DOMAIN branches
             /\ branches'[ret'.branch_id][ret'.stmt.table].rows =
                    RowsAfter(ret'.stmt.kind,
                              branches[ret'.branch_id][ret'.stmt.table].rows)
             /\ \A b \in DOMAIN branches \ {ret'.branch_id} :
                    /\ branches'[b] = branches[b]
                    /\ ResolveRows(branches'[b], main', ret'.stmt.table) =
                          ResolveRows(branches[b], main, ret'.stmt.table)]_vars

\* Branch 0 holds its own copy of t, changed by an update, while main.t has
\* its first row and branch 1 still has its view of t.
C11_Witness ==
    /\ ret.op = "branch_query"
    /\ ret.stmt = [kind |-> "update", table |-> "t"]
    /\ ret.branch_id = 0
    /\ ~IsError(ret.result)
    /\ DOMAIN branches = {0, 1}
    /\ "t" \in DOMAIN branches[0] \cap DOMAIN branches[1] \cap DOMAIN main
    /\ branches[0]["t"] = BaseTable({3})
    /\ branches[1]["t"] = View("t")
    /\ main["t"] = {1}

\* C19: whenever a branch_query call is over (the branch was missing, the
\* statement returned, or the statement raised) the search path is 'main'
\* again, and an unqualified statement of the query tool, whatever was
\* called before it, changes no branch schema.
C19_SearchPathRestored ==
    /\ [](search_path = <<MainSchema>>)
    /\ [][ret'.op = "query" => branches' = branches]_vars

\* A statement that raised inside an existing branch: the caller got an
\* error and the path is 'main'.
C19_Witness ==
    /\ ret.op = "branch_query"
    /\ ret.branch_id \in DOMAIN branches
    /\ IsError(ret.result)
    /\ search_path = <<MainSchema>>

\* The ids a listing holds.
ListedIds(listing) == {listing[i].trigger_id : i \in 1..Len(listing)}

\* C12: list_triggers("active") returns exactly the triggers with enabled =
\* true, list_triggers("inactive") exactly those with enabled = false, any
\* other or absent status all triggers, each once; and once delete_trigger
\* has been called on an enabled trigger, every inactive listing holds it
\* and no active listing does.
C12_ListTriggersFiltersByEnabled ==
    /\ [](ret.op = "list_triggers" /\ ~IsError(ret.result)
            => LET listing == Payload(ret.result)
                   status  == Get(ret.arguments, "status", "absent")
                   wanted  == CASE status = "active" ->
                                     {r \in trigger_registry : r.enabled}
                                [] status = "inactive" ->
                                     {r \in trigger_registry : ~r.enabled}
                                [] OTHER -> trigger_registry
               IN  /\ {listing[i] : i \in 1..Len(listing)} = wanted
                   /\ Len(listing) = Cardinality(wanted))
    /\ [][(/\ ret'.op = "delete_trigger"
            /\ ~IsError(ret'.result)
            /\ \E r \in trigger_registry :
                   r.trigger_id = ret'.arguments.trigger_id /\ r.enabled)
              => /\ \A listing \in ListTriggers(trigger_registry', Some("inactive")) :
                       ret'.arguments.trigger_id \in ListedIds(listing)
                 /\ \A listing \in ListTriggers(trigger_registry', Some("active")) :
                       ret'.arguments.trigger_id \notin ListedIds(listing)]_vars

\* An inactive listing of one deleted trigger beside an enabled one.
C12_Witness ==
    /\ ret.op = "list_triggers"
    /\ ret.arguments = [status |-> "inactive"]
    /\ ~IsError(ret.result)
    /\ Len(Payload(ret.result)) = 1
    /\ Cardinality(trigger_registry) = 2

\* The concept of the trigger a test_trigger call named.
TestedConcept == (CHOOSE r \in trigger_registry :
                     r.trigger_id = ret.arguments.trigger_id).concept

\* Whether every token of the concept longer than 2 characters occurs in
\* the content, case ignored.
EveryLongTokenOccurs(concept, content) ==
    \A i \in 1..Len(Split(concept)) :
        Len(Split(concept)[i]) > 2
          => Contains(LowerText(content), LowerText(Split(concept)[i]))

HasLongToken(concept) ==
    \E i \in 1..Len(Split(concept)) : Len(Split(concept)[i]) > 2

C14_LocalAndRemotePathsAgree ==
    LET ts == TriggerStore(trigger_schema, trigger_registry)
        bs == BranchStore(main, branches, search_path)
    IN  /\ \A a \in DeleteArguments, t \in ClockReadings :
               DeleteTriggerOutcomes(ts, a, TRUE, {t}) = DeleteTriggerOutcomes(ts, a, FALSE, {t})
        /\ \A a \in BranchDiscardArguments :
               BranchDiscardOutcome(bs, a, TRUE) = BranchDiscardOutcome(bs, a, FALSE)
        /\ \A a \in BranchQueryArguments :
               BranchQueryOutcome(bs, a, TRUE) = BranchQueryOutcome(bs, a, FALSE)
        /\ \A a \in BranchMergeArguments :
               BranchMergeOutcome(bs, a, TRUE) = BranchMergeOutcome(bs, a, FALSE)
        /\ \A a \in RegisterArguments, t \in ClockReadings :
               RegisterTriggerOutcomes(ts, a, TRUE, next_uuid, {t}) =
                 RegisterTriggerOutcomes(ts, a, FALSE, next_uuid, {t})
        /\ \A a \in ListArguments :
               ListTriggersOutcomes(ts, a, TRUE) = ListTriggersOutcomes(ts, a, FALSE)
        /\ \A a \in TestArguments :
               TestTriggerOutcomes(ts, a, TRUE) = TestTriggerOutcomes(ts, a, FALSE)

\* The tools of the catalog that are called, with their required arguments.
RequiredArguments(tool_name) ==
    CASE tool_name = "register_trigger" -> {"name", "concept"}
      [] tool_name = "list_triggers" -> {}
      [] tool_name = "delete_trigger" -> {"trigger_id"}
      [] tool_name = "test_trigger" -> {"trigger_id", "content"}
      [] tool_name = "branch_query" -> {"branch_id", "sql"}
      [] tool_name = "branch_merge" -> {"branch_id"}
      [] tool_name = "branch_discard" -> {"branch_id"}

CalledTools ==
    {"register_trigger", "list_triggers", "delete_trigger", "test_trigger",
     "branch_query", "branch_merge", "branch_discard"}

\* Whether a call made in the current state fails: the tool is unknown, a
\* required argument is missing, the branch that branch_query or
\* branch_merge needs is not there, or the storage call raises (the trigger
\* table is missing on the remote path, the statement cannot be run).
CallFails(tool_name, arguments) ==
    \/ tool_name \notin CalledTools
    \/ ~(RequiredArguments(tool_name) \subseteq DOMAIN arguments)
    \/ /\ tool_name \in {"branch_query", "branch_merge"}
       /\ arguments.branch_id \notin DOMAIN branches
    \/ /\ tool_name = "branch_query"
       /\ ~RunInBranch(branches[arguments.branch_id], main, arguments.sql).ok
    \/ /\ tool_name \in {"list_triggers", "delete_trigger", "test_trigger"}
       /\ ~is_local
       /\ ~trigger_schema

\* C15: every call of handle_tool_call returns a result whose content is a
\* list of one text item, with isError = true exactly when the call failed
\* and no isError field when it succeeded, the text of a caught exception
\* starting with "Error: ".
C15_EveryCallReturnsAnEnvelope ==
    [][ret'.op \in CalledTools \cup UnknownTools
         => /\ DOMAIN ret'.result \in {{"content"}, {"content", "isError"}}
            /\ Len(ret'.result.content) = 1
            /\ ret'.result.content[1].type = "text"
            /\ IsError(ret'.result) => ret'.result.isError = TRUE
            /\ IsError(ret'.result) <=> CallFails(ret'.op, ret'.arguments)
            /\ (IsError(ret'.result) /\ ret'.op \in CalledTools)
                  => Payload(ret'.result)[1] = "Error: "]_vars

\* C16: a read_query call, whatever its sql argument, leaves every schema,
\* table and row unchanged, and a sql text that holds a mutating statement
\* ends in an error result.
C16_ReadQueryChangesNothing ==
    [][ret'.op = "read_query"
         => /\ main' = main
            /\ branches' = branches
            /\ ("sql" \in DOMAIN ret'.arguments
                  /\ \E i \in 1..Len(ret'.arguments.sql) :
                        ret'.arguments.sql[i] = "DROP TABLE t")
                 => IsError(ret'.result)]_vars


\* A line holding a well-formed request: a JSON object whose method is a str
\* and whose params, when there, is an object.
IsWellFormedRequest(line) ==
    LET r == JsonLoads(Strip(line))
    IN  /\ r.ok
        /\ IsA(r.v, "dict")
        /\ IsA(Method(r.v), "str")
        /\ IsA(DictGet(r.v, "params", PyDict(<<>>)), "dict")

\* The well-formed requests among `lines` that call for a response.
RequestsToAnswer(lines) ==
    {i \in 1..Len(lines) :
        /\ IsWellFormedRequest(lines[i])
        /\ ~IsMethod(JsonLoads(Strip(lines[i])).v, "notifications/initialized")}

\* C17: the stdio loop keeps serving until end of input: whatever lines came
\* before (malformed JSON, a JSON value that is not an object, a tools/call
\* whose params or arguments are missing, null or of the wrong type, a tool
\* that fails), the loop stops reading only when no well-formed request is
\* left on its input, and every well-formed request it has read is answered.
C17_LoopServesUntilEndOfInput ==
    /\ loop # "reading" => \A i \in 1..Len(stdin) : ~IsWellFormedRequest(stdin[i])
    /\ \A i \in RequestsToAnswer(read_lines) :
          \E j \in 1..Len(stdout) :
             stdout[j].id = ReqId(JsonLoads(Strip(read_lines[i])).v)

\* C18: for every request line whose method is initialize, tools/list,
\* tools/call or an unknown method, the loop writes exactly one response
\* carrying that request's id before it reads the next line; an unknown
\* method gets error code -32601; notifications/initialized gets no response.
C18_OneResponsePerRequestInOrder ==
    [][(read_lines' # read_lines /\ Request.ok /\ IsA(Request.v, "dict"))
         => IF IsMethod(Request.v, "notifications/initialized")
            THEN stdout' = stdout
            ELSE /\ Len(stdout') = Len(stdout) + 1
                 /\ SubSeq(stdout', 1, Len(stdout)) = stdout
                 /\ stdout'[Len(stdout')].id = ReqId(Request.v)
                 /\ (\A m \in KnownMethods : ~IsMethod(Request.v, m))
                       => /\ "error" \in DOMAIN stdout'[Len(stdout')]
                          /\ stdout'[Len(stdout')].error.code = -32601]_vars


\* C20: replay_session returns chain_valid = None exactly when verify_chain is
\* false; whenever verify_chain is true, for a session with no traces too, it
\* returns true if every per-step check passes and false otherwise, as a
\* normal result.
C20_ChainValidNoneIffNotRequested ==
    ret.op = "replay_session" =>
        /\ (ret.chain_valid = None) <=> ~ret.verify_chain
        /\ ret.verify_chain =>
              ret.chain_valid = Some(\A i \in 1..Len(ret.steps) : StepValid(ret.steps, i))


\* C21: delete_memory(id) returns true exactly when a memory with that id was
\* stored, and after it returns no memory with that id is stored; for an id
\* that is not stored it returns false (a result, not an error); in both
\* cases every other memory is unchanged.
C21_DeleteMemoryRemovesOnlyThatRow ==
    [][ret'.op = "delete_memory"
         => /\ ret'.deleted \in BOOLEAN
            /\ ret'.deleted <=> \E m \in agent_memories : m.memory_id = ret'.memory_id
            /\ \A m \in agent_memories' : m.memory_id # ret'.memory_id
            /\ {m \in agent_memories' : m.memory_id # ret'.memory_id}
                  = {m \in agent_memories : m.memory_id # ret'.memory_id}]_vars

\* A delete_memory that returned true while another memory was stored.
C21_Witness ==
    /\ ret.op = "delete_memory"
    /\ ret.deleted
    /\ agent_memories # {}


\* Whether every whitespace-separated token of the text has length 2 or
\* less; the empty text has no token.
EveryTokenIsShort(text) ==
    \A i \in 1..Len(Split(text)) : Len(Split(text)[i]) <= 2

\* The memories of the searched agent that satisfy the memory_type and
\* min_importance filters of the search.
PassingFilters ==
    {m \in agent_memories :
        /\ m.agent_id = ret.agent_id
        /\ ret.memory_type # None => m.memory_type = ret.memory_type[1]
        /\ ret.min_importance # None => m.importance >= ret.min_importance[1]}

\* C22 as stated: search_memory with an empty query, or with a query whose
\* every whitespace-separated token has length 2 or less, returns all
\* memories of that agent that satisfy the memory_type and min_importance
\* filters.
C22_ShortQueryReturnsAll ==
    (ret.op = "search_memory" /\ EveryTokenIsShort(ret.query_text))
        => ReturnedIds = {m.memory_id : m \in PassingFilters}

\* C22 as amended: such a search returns memories that pass the filters, each
\* once: all of them when there are at most top_k, and otherwise top_k of
\* them, none of those left out ranking before one returned (importance
\* DESC, created_at DESC).
C22_ShortQueryReturnsTopK ==
    (ret.op = "search_memory" /\ EveryTokenIsShort(ret.query_text))
        => /\ ReturnedIds \subseteq {m.memory_id : m \in PassingFilters}
           /\ Cardinality(ReturnedIds) = Len(ret.rows)
           /\ Len(ret.rows) = IF Cardinality(PassingFilters) <= ret.top_k
                               THEN Cardinality(PassingFilters) ELSE ret.top_k
           /\ \A m \in PassingFilters :
                 m.memory_id \notin ReturnedIds
                    => \A i \in 1..Len(ret.rows) : ~RanksBefore(m, ret.rows[i])

\* A search whose tokens are "ab" and "b" returns both memories of the
\* agent, one of which does not hold "ab".
C22_Witness ==
    /\ ret.op = "search_memory"
    /\ ret.query_text = <<"a", "b", " ", "b">>
    /\ Len(ret.rows) = 2
    /\ \E i \in 1..2 : ret.rows[i].content = <<"b", " ", "a">>


\* C23: branch_merge(id, "main_wins") on an existing branch leaves every table
\* of main unchanged (also the tables the branch had materialized), reports
\* merged = 0, and drops the branch schema.
C23_MainWinsLeavesMain ==
    [][(/\ ret'.op = "branch_merge"
        /\ ret'.strategy = "main_wins"
        /\ ret'.branch_id \in DOMAIN branches)
          => /\ main' = main
             /\ ~IsError(ret'.result)
             /\ Payload(ret'.result).merged = 0
             /\ ret'.branch_id \notin DOMAIN branches'
             /\ \A id \in DOMAIN branches \ {ret'.branch_id} :
                   id \in DOMAIN branches' /\ branches'[id] = branches[id]]_vars

\* A main_wins merge of a branch that existed, on a main holding table t
\* with the rows it was opened with.
C23_Witness ==
    /\ ret.op = "branch_merge"
    /\ ret.strategy = "main_wins"
    /\ ~IsError(ret.result)
    /\ "merged" \in DOMAIN Payload(ret.result)
    /\ "error" \notin DOMAIN Payload(ret.result)
    /\ ret.branch_id \in gone
    /\ ret.branch_id \notin DOMAIN branches
    /\ main = [n \in {"t"} |-> {1}]


\* The bootstrap of `schema` has run to its end at some time: the schema and
\* all its tables are in the file.
BootstrapDone(schema) == SchemaObjects(schema) \subseteq catalog

\* The step is taken inside a call of the bootstrap of `schema`, or is such a
\* call returning at its guard.
BootstrapStep(schema) ==
    \/ \E t \in Threads :
         /\ threads[t].pc \in {"create_schema", "create_table", "add"}
         /\ threads[t].schema = schema
         /\ threads'[t] # threads[t]
    \/ /\ ret' # ret
       /\ ret'.op = "ensure_schema"
       /\ ret'.schema = schema

\* C24: running a schema bootstrap again (in the same process, in a new
\* process on the same file, or from interleaved callers in one process)
\* changes nothing: the schemas, the tables and all stored rows are the same
\* as after the first run.
C24_BootstrapAgainChangesNothing ==
    [][\A schema \in InternalSchemas :
          (BootstrapDone(schema) /\ BootstrapStep(schema))
             => /\ catalog' = catalog
                /\ trigger_schema' = trigger_schema
                /\ agent_memories' = agent_memories
                /\ agent_state' = agent_state
                /\ agent_traces' = agent_traces
                /\ trigger_registry' = trigger_registry]_vars

\* A bootstrap of the memory schema that ran its CREATE statements while a
\* memory was stored, and left it there.
C24_Witness ==
    /\ ret.op = "ensure_schema"
    /\ ret.schema = MEMORY_SCHEMA
    /\ ret.created
    /\ agent_memories # {}
    /\ agent_traces # {}


\* C25: after any sequence of store_memory calls with any arguments (through
\* the engine or through the store_memory tool), every row of agent_memories
\* has a unique memory_id, a non-empty agent_id and an importance within
\* [0,1] (0..10 in tenths).
C25_MemoryRowInvariants ==
    /\ \A m, n \in agent_memories : m.memory_id = n.memory_id => m = n
    /\ \A m \in agent_memories : m.agent_id # <<>>
    /\ \A m \in agent_memories : 0 <= m.importance /\ m.importance <= 10


\* The ids of the rows of a trigger table.
TriggerIds(rows) == {r.trigger_id : r \in rows}

C27_CreateThenDiscardIsIdentity ==
    /\ [][ret'.op = "branch_create"
            => LET id == Payload(ret'.result).branch_id
               IN  /\ main' = main
                   /\ search_path' = search_path
                   /\ id \notin DOMAIN branches
                   /\ DOMAIN branches' = DOMAIN branches \cup {id}
                   /\ \A b \in DOMAIN branches : branches'[b] = branches[b]]_vars
    /\ [][(/\ ret.op = "branch_create"
            /\ ret'.op = "branch_discard"
            /\ ret'.branch_id = Payload(ret.result).branch_id)
              => LET id == ret'.branch_id
                 IN  /\ Payload(ret'.result).discarded
                     /\ main' = main
                     /\ search_path' = search_path
                     /\ DOMAIN branches' = DOMAIN branches \ {id}
                     /\ \A b \in DOMAIN branches' : branches'[b] = branches[b]]_vars

\* The first branch created on a file holding table t has been discarded:
\* main holds t with its rows and no branch schema is left.
C27_Witness ==
    /\ ret.op = "branch_discard"
    /\ Payload(ret.result).discarded
    /\ ret.branch_id = 0
    /\ next_uuid = 1
    /\ gone = {0}
    /\ DOMAIN branches = {}
    /\ main = [n \in {"t"} |-> {1}]


\* The requests a step sends.
Sent == SubSeq(http', Len(http) + 1, Len(http'))

C29_SessionIsChained ==
    (ret.op = "build_cot_session" /\ ~ret.raised)
      => /\ Len(ret.traces) = Len(ret.steps)
         /\ \A i \in 1..Len(ret.traces) :
               LET trace == ret.traces[i]
                   prev_hash == IF i = 1 THEN <<>> ELSE ret.traces[i - 1].content_hash
               IN  /\ trace.session_id = ret.session_id
                   /\ trace.step_index = i - 1
                   /\ trace.trace_type = ret.steps[i].type
                   /\ trace.content = ret.steps[i].content
                   /\ trace.content_hash
                        = SHA256(prev_hash \o trace.trace_type \o PyRepr(trace.content)
                                          \o trace.timestamp)

\* A session of two steps of different types was built.
C29_Witness ==
    /\ ret.op = "build_cot_session"
    /\ ~ret.raised
    /\ Len(ret.traces) = 2
    /\ ret.traces[1].trace_type = <<"Thought">>
    /\ ret.traces[2].trace_type = <<"ToolCall">>
    /\ ret.traces[2].content = PyDict(<< <<<<"text">>, PyStr(<<"hi">>)>> >>)
    /\ ret.traces[1].timestamp # ret.traces[2].timestamp


\* C30: log_reasoning_step adds exactly one trace row and changes no
\* existing row of any session; replay_session and list_sessions change
\* nothing; no engine operation ever updates or deletes a trace.
C30_TracesAreAppendOnly ==
    [][/\ agent_traces \subseteq agent_traces'
       /\ (ret'.op = "log_reasoning_step" /\ next_uuid' # next_uuid)
            => Cardinality(agent_traces') = Cardinality(agent_traces) + 1
       /\ ret'.op \in {"replay_session", "list_sessions"}
            => agent_traces' = agent_traces]_vars


\* C31: every row returned by search_memory(agent, query, top_k,
\* memory_type, min_importance) belongs to that agent, has the requested
\* memory_type when one is given and importance >= min_importance when one
\* is given, and contains at least one query token longer than 2 characters
\* when the query has such a token; the result has at most top_k rows in
\* non-increasing importance order, and no qualifying row of higher
\* importance is left out in favour of a returned row of lower importance.
C31_SearchResultIsFilteredAndRanked ==
    ret.op = "search_memory" =>
        LET words == SearchWords(ret.query_text)
            Qualifies(m) ==
                /\ m.agent_id = ret.agent_id
                /\ ret.memory_type # None => m.memory_type = ret.memory_type[1]
                /\ ret.min_importance # None => m.importance >= ret.min_importance[1]
                /\ words # <<>> =>
                      \E i \in 1..Len(words) :
                          Contains(LowerText(m.content), LowerText(words[i]))
            returned == {ret.rows[i] : i \in 1..Len(ret.rows)}
        IN  /\ \A r \in returned : Qualifies(r)
            /\ Len(ret.rows) <= ret.top_k
            /\ \A i, j \in 1..Len(ret.rows) :
                  i < j => ret.rows[i].importance >= ret.rows[j].importance
            /\ \A m \in agent_memories \ returned : \A r \in returned :
                  Qualifies(m) => m.importance <= r.importance


\* The trigger a test_trigger call named.
TestedTrigger == CHOOSE r \in trigger_registry : r.trigger_id = ret.arguments.trigger_id

\* W: the distinct lowercased tokens of a concept longer than 2 characters.
DistinctConceptTokens(concept) ==
    {w \in {Split(LowerText(concept))[i] : i \in 1..Len(Split(LowerText(concept)))} :
        Len(w) > 2}

\* C32: test_trigger's score equals |M| / max(|W|, 1), where W is the set
\* of distinct lowercased concept tokens longer than 2 characters and M the
\* members of W that occur in the lowercased content; matched is true
\* exactly when that score is >= the trigger's threshold; a concept with no
\* token longer than 2 characters scores 0.  (The score returned is the
\* quotient rounded to 4 decimals; the threshold is in tenths.)
C32_ScoreIsShareOfDistinctTokens ==
    (ret.op = "test_trigger" /\ ~IsError(ret.result)
        /\ "score" \in DOMAIN Payload(ret.result))
      => LET W == DistinctConceptTokens(TestedTrigger.concept)
             M == {w \in W : Contains(LowerText(ret.arguments.content), w)}
             n == Max(Cardinality(W), 1)
         IN  /\ Payload(ret.result).score = Round4(Cardinality(M), n)
             /\ Payload(ret.result).matched
                  <=> (10 * Cardinality(M) >= TestedTrigger.threshold * n)
             /\ W = {} => Payload(ret.result).score = 0


\* C33: test_trigger with an id that matches no trigger returns the data
\* result {matched: false, error: "Trigger not found"} without isError, and
\* test_trigger never changes the registry: the rows, and so enabled and
\* updated_at of every trigger (fire_count and last_fired_at are written by
\* no statement), are the same before and after, whether or not the content
\* matched.
C33_TestTriggerOnlyReads ==
    [][(/\ ret'.op = "test_trigger"
        /\ {"trigger_id", "content"} \subseteq DOMAIN ret'.arguments)
         => /\ trigger_registry' = trigger_registry
            /\ ret'.arguments.trigger_id \notin TriggerIds(trigger_registry)
                 => /\ ~IsError(ret'.result)
                    /\ Payload(ret'.result) = NotFound]_vars


\* The names a branch schema holds a passthrough view for.
ViewNames(schema) == {n \in DOMAIN schema : schema[n].type = "VIEW"}

\* C34: a branch fixes its list of passthrough views at creation: the views
\* of a new branch are those of main's tables at that time, and no later
\* step gives a branch a view it did not have (a table added to main
\* afterwards gets none); and a SELECT through branch_query on a table of
\* main the branch has not materialized returns the rows main holds at the
\* time of the query.
C34_ViewListFixedRowsCurrent ==
    [][/\ \A id \in DOMAIN branches' :
            IF id \in DOMAIN branches
            THEN ViewNames(branches'[id]) \subseteq ViewNames(branches[id])
            ELSE /\ ViewNames(branches'[id]) = DOMAIN main
                 /\ Materialized(branches'[id]) = {}
       /\ (/\ ret'.op = "branch_query"
           /\ ret'.stmt.kind = "select"
           /\ ret'.branch_id \in DOMAIN branches
           /\ ret'.stmt.table \in DOMAIN main
           /\ ret'.stmt.table \notin Materialized(branches[ret'.branch_id]))
            => /\ ret'.result = Ok([rows |-> main[ret'.stmt.table]])
               /\ main' = main]_vars

\* A branch created when main held t alone has read, through its view, the
\* row written to main.t after its creation, while main.u, added by the
\* merge of another branch, has no view in it.
C34_Witness ==
    /\ ret.op = "branch_query"
    /\ ret.stmt = [kind |-> "select", table |-> "t"]
    /\ ret.branch_id \in DOMAIN branches
    /\ ViewNames(branches[ret.branch_id]) = {"t"}
    /\ "u" \in DOMAIN main
    /\ "u" \notin DOMAIN branches[ret.branch_id]
    /\ ret.result = Ok([rows |-> {1, 3}])


\* C35: a session whose steps were appended through the SQL-only path of
\* log_reasoning_step, through the engine, or through any alternation of
\* the two on one store is numbered 0, 1, 2, ... and is hash-chained, so a
\* replay with verify_chain = true, through either path, that returns steps
\* reports chain_valid = true.
C35_EitherPathChains ==
    LET replayed == IF ret.op = "replay_session" THEN Some(ret)
                    ELSE IF ret.op = "replay_decision" /\ ~IsError(ret.result)
                         THEN Some(Payload(ret.result))
                         ELSE None
    IN  (replayed # None /\ replayed[1].steps # <<>>)
            => /\ replayed[1].chain_valid = Some(TRUE)
               /\ \A i \in 1..Len(replayed[1].steps) :
                      replayed[1].steps[i].step_number = i - 1


\* C36: whenever a schema name is in the engine's _initialized_schemas set,
\* the schema and its tables are in the catalog, after any sequence of tool
\* calls (query calls that run DDL included), so no CoT operation raises
\* for a missing table.
C36_InitializedSchemasExist ==
    /\ \A schema \in initialized_schemas : SchemaObjects(schema) \subseteq catalog
    /\ ret.op \in {"log_reasoning_step", "replay_session"} => "raised" \notin DOMAIN ret


\* C37: branch_merge or branch_discard of one branch leaves every other
\* branch as it was, its schema with its views and materialized tables; and
\* a branch_wins merge of a branch that has materialized T leaves main.T
\* with that branch's rows whatever an earlier merge had put there, so of
\* two branches merged one after the other the one merged last decides.
C37_OtherBranchesKeptLastMergeWins ==
    [][(/\ ret'.op \in {"branch_merge", "branch_discard"}
        /\ ret'.branch_id \in DOMAIN branches)
          => /\ \A other \in DOMAIN branches \ {ret'.branch_id} :
                    other \in DOMAIN branches' /\ branches'[other] = branches[other]
             /\ (ret'.op = "branch_merge" /\ ret'.strategy = "branch_wins")
                  => \A n \in Materialized(branches[ret'.branch_id]) :
                        main'[n] = branches[ret'.branch_id][n].rows]_vars

\* Both branches have been merged, the last with branch_wins and one
\* materialized table, and main.t holds rows no statement on main wrote.
C37_Witness ==
    /\ ret.op = "branch_merge"
    /\ ret.strategy = "branch_wins"
    /\ ~IsError(ret.result)
    /\ Payload(ret.result).merged = 1
    /\ gone = {0, 1}
    /\ DOMAIN main = {"t"}
    /\ main["t"] = {1, 3}


\* A replay with verification of the session a change was made to, after
\* the change, that returned steps.
ReplayedAfterChange ==
    /\ tampered # None
    /\ ret.op = "replay_session"
    /\ ret.verify_chain
    /\ ret.session_id = tampered[1].session_id
    /\ ret.steps # <<>>

\* C38 as stated: every single change made to a session in storage, other
\* than the removal of its final trace, makes replay_session with
\* verify_chain = true return chain_valid = false.
C38_EveryChangeDetected ==
    (ReplayedAfterChange /\ tampered[1].change # "removed_final")
        => ret.chain_valid = Some(FALSE)

\* C38, amended: an edit of the step_type, prev_hash or hash of any trace,
\* or the removal of a trace that has a successor, makes replay_session
\* with verify_chain = true return chain_valid = false.
C38_ListedChangesDetected ==
    (ReplayedAfterChange
       /\ tampered[1].change \in {"step_type", "prev_hash", "hash", "removed"})
        => ret.chain_valid = Some(FALSE)

\* The first trace of a session of two has been removed, and the replay of
\* the one that is left reports the broken chain.
C38_Witness ==
    /\ ReplayedAfterChange
    /\ tampered[1].change = "removed"
    /\ Len(ret.steps) = 1
    /\ ret.steps[1].step_number = 1
    /\ ret.chain_valid = Some(FALSE)

====
